---- MODULE Spec2Model ----
(***************************************************************************)
(* A model of the governance-decentralisation pipeline of eth-gov-nakamoto *)
(* (src/src/compute_nakamoto.py, src/src/parse_eips.py,                    *)
(* src/src/parse_core_devs.py, src/scripts/update_org_mapping.py).         *)
(*                                                                         *)
(* Numbers.  The program computes with Python floats.  A share is modelled *)
(* as an integer numerator over the denominator `unit` of its table (the   *)
(* value 1.0 is `unit`), a threshold as a fraction [num, den]; sums and    *)
(* comparisons are exact.                                                  *)
(***************************************************************************)
EXTENDS Integers, Sequences, FiniteSets, TLC

VARIABLES
    df,               \* the share table handed to the coefficient engine / reports
    unit,             \* denominator of the Share column of df
    threshold,        \* threshold of the last compute_nakamoto_coefficient call
    entities_needed,  \* its return value
    prevThreshold,    \* threshold of the call before it
    prevNeeded,       \* and its return value
    nakamoto,         \* coefficient written by generate_text_report
    vizNeeded,        \* coefficient written by text_visualize_shares
    accepted_eips,    \* the author rows handed to process_organizations
    eip_orgs,         \* its dictionary EIP -> set of organizations
    eips_per_org,     \* the table it returns
    processed,        \* process_organizations has returned
    author,           \* the EipAuthor handed to get_organizations
    org_mapping,      \* the case-insensitive organization mapping
    orgs,             \* the set get_organizations returns
    resolved,         \* get_organizations has returned
    mapping_file,     \* the items of the mapping file, in the order of the file
    loaded,           \* load_organization_mapping has returned
    author_entry,     \* one entry of an EIP's author field
    email,            \* the email parse_eip_file extracts from it
    extracted,        \* the entry has been turned into `author`
    raw_org,          \* the string handed to process_organization
    processed_orgs,   \* the set it returns
    canonical,        \* process_organization has returned
    existing_mapping, \* the mapping handed to update_org_mapping
    attendance_file,  \* the rows of the attendance CSV
    attendance_mapping, \* what parse_attendance_csv returns
    updated_mapping,  \* what update_org_mapping returns
    parsed,           \* parse_attendance_csv has returned
    updated,          \* update_org_mapping has returned
    authors_df,       \* the author records handed to filter_eips / compute_eip_nakamoto
    status,           \* the status argument
    filtered_df,      \* what filter_eips returns
    refiltered_df,    \* what it returns for its own output
    filter_calls,     \* number of filter_eips calls made
    eip_nakamoto,     \* what compute_eip_nakamoto returns
    accepted_nakamoto, \* what compute_accepted_eip_nakamoto returns
    content,          \* the text of one meeting-notes file
    attendees,        \* the attendee set extract_meeting_attendees finds in it
    meeting_read,     \* extract_meeting_attendees has returned
    eip_files,        \* the EIP files of the repository, in the order of the glob
    meeting_files,    \* the meeting-notes files of the repository
    mapping_items,    \* the items of the organization mapping file of the batch
    authors_csv,      \* what process_eips_repository wrote, and whether it raised
    attendance_csv    \* what process_core_dev_meetings wrote, and whether it raised

coefVars == <<df, unit, threshold, entities_needed, prevThreshold, prevNeeded,
              nakamoto, vizNeeded>>

orgVars == <<accepted_eips, eip_orgs, eips_per_org, processed>>

resVars == <<author, org_mapping, orgs, resolved>>

loadVars == <<mapping_file, loaded>>

extractVars == <<author_entry, email, extracted>>

canonVars == <<raw_org, processed_orgs, canonical>>

updateVars == <<existing_mapping, attendance_file, attendance_mapping, updated_mapping,
                parsed, updated>>

filterVars == <<authors_df, status, filtered_df, refiltered_df, filter_calls, eip_nakamoto,
                accepted_nakamoto>>

meetVars == <<content, attendees, meeting_read>>

batchVars == <<eip_files, meeting_files, mapping_items, authors_csv, attendance_csv>>

vars == <<coefVars, orgVars, resVars, loadVars, extractVars, canonVars, updateVars, filterVars, meetVars, batchVars>>

(* what the operations of one group leave alone *)
restOfCoef == <<orgVars, resVars, loadVars, extractVars, canonVars, updateVars, filterVars, meetVars, batchVars>>

restOfOrgs == <<coefVars, resVars, loadVars, extractVars, canonVars, updateVars, filterVars, meetVars, batchVars>>

restOfResolve == <<coefVars, orgVars, loadVars, extractVars, canonVars, updateVars, filterVars, meetVars, batchVars>>

restOfLoad == <<coefVars, orgVars, extractVars, canonVars, updateVars, filterVars, meetVars, batchVars>>

restOfExtract == <<coefVars, orgVars, loadVars, canonVars, updateVars, filterVars, meetVars, batchVars>>

restOfCanon == <<coefVars, orgVars, resVars, loadVars, extractVars, updateVars, filterVars, meetVars, batchVars>>

restOfUpdate == <<coefVars, orgVars, resVars, loadVars, extractVars, canonVars, filterVars, meetVars, batchVars>>

restOfFilter == <<coefVars, orgVars, resVars, loadVars, extractVars, canonVars, updateVars, meetVars, batchVars>>

restOfMeet == <<coefVars, orgVars, resVars, loadVars, extractVars, canonVars, updateVars, filterVars, batchVars>>

restOfBatch == <<coefVars, orgVars, resVars, loadVars, extractVars, canonVars, updateVars, filterVars, meetVars>>

----------------------------------------------------------------------------
(* Bounds of the generated inputs: rows of a table, largest share and largest
   threshold (numerators over GenUnit) *)

MaxRows == 3
MaxShare == 2
MaxThreshold == 4
GenUnit == 4
MaxAuthorRows == 2
MaxItems == 2
MaxOrgLen == 4
MaxAttendanceRows == 2
MaxRecords == 2
MaxOrderRows == 3

MaxLines == 3

MaxFiles == 2

(* Program constants *)

ReportTopN == 100000
VizTopN == 15

NotRun == -1

(* the call raised KeyError *)
KeyError == -2

(* A string is a sequence of atoms: a blank, a semicolon, or a word.  Python
   orders strings by code point: blank < ';' < upper case < lower case. *)
AtomOrder == <<" ", "(", ")", "*", ",", ".", "/", ":", ";", "<", ">", "@",
               "A", "Alice", "AliceGH", "B", "Bob", "C", "Cantina", "Consensys", "D", "E",
               "EF", "Ethereum", "Geth", "Independent", "MetaMask", "Org1", "Org2", "Org3",
               "Org4", "Pantheon", "PegaSys",
               "Research", "Solidity",
               "alice", "alicegh", "bob", "com", "ef", "example", "geth", "home",
               "metamask", "pantheon", "pegasys", "research", "solidity">>

(* pandas' missing value, and Python's None *)
NaN == <<"<NaN>">>
None == <<"<None>">>

AtomRank(a) == CHOOSE i \in 1..Len(AtomOrder) : AtomOrder[i] = a

RECURSIVE StrLess(_, _)
StrLess(a, b) ==
    IF b = <<>> THEN FALSE
    ELSE IF a = <<>> THEN TRUE
    ELSE IF a[1] = b[1] THEN StrLess(Tail(a), Tail(b))
    ELSE AtomRank(a[1]) < AtomRank(b[1])

Str(word) == <<word>>

(* The keys of S in ascending order *)
RECURSIVE SortedKeys(_)
SortedKeys(S) ==
    IF S = {} THEN <<>>
    ELSE LET m == CHOOSE x \in S : \A y \in S \ {x} : StrLess(x, y)
         IN <<m>> \o SortedKeys(S \ {m})

GenEntities == {Str("A"), Str("B")}

Row(e, s) == [Entity |-> e, Share |-> s]

GenRows == {Row(e, s) : e \in GenEntities, s \in 0..MaxShare}

SeqsUpTo(S, n) == UNION {[1..k -> S] : k \in 0..n}

(* The share tables of src/tests/test_compute_nakamoto.py, in twentieths *)
TestTable(shares) ==
    [i \in 1..Len(shares) |-> Row(Str(<<"A", "B", "C", "D", "E">>[i]), shares[i])]
BasicShares == TestTable(<<6, 5, 4, 3, 2>>)
EqualShares == TestTable(<<4, 4, 4, 4, 4>>)
HighConcentration == TestTable(<<12, 2, 2, 2, 2>>)
TestTables == {BasicShares, EqualShares, HighConcentration}

Frac(n, d) == [num |-> n, den |-> d]

Half == Frac(1, 2)

----------------------------------------------------------------------------
(* Helpers over tables *)

RECURSIVE SumShares(_)
SumShares(rows) ==
    IF rows = <<>> THEN 0 ELSE rows[1].Share + SumShares(Tail(rows))

(* the shares of the test tables sum to 1.0 *)
TestUnit == SumShares(BasicShares)

ShareColumn(rows) == [i \in 1..Len(rows) |-> rows[i].Share]

EntityColumn(rows) == {rows[i].Entity : i \in 1..Len(rows)}

HeadN(rows, n) == SubSeq(rows, 1, IF n < Len(rows) THEN n ELSE Len(rows))

GroupByNothing(rows) == rows

(* df.groupby(entity_col)[share_col].sum().reset_index(): one row per entity,
   keys ascending, the shares of its rows added *)
GroupBySum(rows) ==
    LET keys == SortedKeys(EntityColumn(rows))
    IN [i \in 1..Len(keys) |->
           Row(keys[i], SumShares(SelectSeq(rows, LAMBDA r : r.Entity = keys[i])))]

RemoveAt(rows, i) == SubSeq(rows, 1, i - 1) \o SubSeq(rows, i + 1, Len(rows))

(* The share that sorts first *)
SortsFirstAscending(rows, i) == \A k \in 1..Len(rows) : rows[i].Share <= rows[k].Share

SortsFirst(rows, i) == \A k \in 1..Len(rows) : rows[i].Share >= rows[k].Share

(* sort_values(by=share_col, ascending=False): the default sort is not stable,
   so rows of equal share may come out in any order *)
RECURSIVE SortValuesDesc(_)
SortValuesDesc(rows) ==
    IF rows = <<>> THEN {<<>>}
    ELSE UNION {{<<rows[i]>> \o rest : rest \in SortValuesDesc(RemoveAt(rows, i))} :
                   i \in {j \in 1..Len(rows) : SortsFirst(rows, j)}}

----------------------------------------------------------------------------
(* compute_nakamoto_coefficient *)

ReachesThresholdStrict(cumulative_sum, u, t) == cumulative_sum * t.den > t.num * u

ReachesThresholdInverted(cumulative_sum, u, t) == cumulative_sum * t.den <= t.num * u

(* `cumulative_sum >= threshold` *)
ReachesThreshold(cumulative_sum, u, t) == cumulative_sum * t.den >= t.num * u

RECURSIVE NeededLoop(_, _, _, _, _, _)
NeededLoop(shares, i, cumulative_sum, needed, u, t) ==
    IF i > Len(shares) THEN needed
    ELSE LET c == cumulative_sum + shares[i]
         IN IF ReachesThreshold(c, u, t) THEN needed + 1
            ELSE NeededLoop(shares, i + 1, c, needed + 1, u, t)

EntitiesNeeded(shares, u, t) == NeededLoop(shares, 1, 0, 0, u, t)

compute_nakamoto_coefficient_normalized(rows, u, t) ==
    {EntitiesNeeded(ShareColumn(s), SumShares(rows), t) : s \in SortValuesDesc(GroupBySum(rows))}

compute_nakamoto_coefficient(rows, u, t) ==
    {EntitiesNeeded(ShareColumn(s), u, t) : s \in SortValuesDesc(GroupBySum(rows))}

----------------------------------------------------------------------------
(* The coefficient loops of the reports *)

(* `cum_share > 0.5` / `cumulative > 0.5` *)
ExceedsHalf(cumulative, u) == cumulative * 2 > u

RECURSIVE ReportLoop(_, _, _, _, _)
ReportLoop(shares, i, cumulative, needed, u) ==
    IF i > Len(shares) THEN needed
    ELSE LET c == cumulative + shares[i]
         IN IF ExceedsHalf(c, u) THEN needed + 1
            ELSE ReportLoop(shares, i + 1, c, needed + 1, u)

(* generate_text_report: NotRun when the body raised (max() of an empty table)
   and nothing was written *)
generate_text_report(rows, u) ==
    IF rows = <<>> THEN {NotRun}
    ELSE {ReportLoop(ShareColumn(HeadN(s, ReportTopN)), 1, 0, 0, u) : s \in SortValuesDesc(rows)}

text_visualize_shares(rows, u) ==
    IF rows = <<>> THEN {NotRun}
    ELSE {ReportLoop(ShareColumn(HeadN(s, VizTopN)), 1, 0, 0, u) : s \in SortValuesDesc(rows)}

----------------------------------------------------------------------------
(* String helpers *)

Range(f) == {f[i] : i \in DOMAIN f}

(* what str.strip() removes and the pattern \s matches: blanks and newlines *)
Whitespace == {" ", "\n"}

RECURSIVE LStrip(_)
LStrip(str) == IF str # <<>> /\ str[1] \in Whitespace THEN LStrip(Tail(str)) ELSE str

RECURSIVE RStrip(_)
RStrip(str) ==
    IF str # <<>> /\ str[Len(str)] \in Whitespace THEN RStrip(SubSeq(str, 1, Len(str) - 1)) ELSE str

(* str.strip() *)
Strip(str) == RStrip(LStrip(str))

(* str.split(';') *)
RECURSIVE Split(_)
Split(str) ==
    LET at == {i \in 1..Len(str) : str[i] = ";"}
    IN IF at = {} THEN <<str>>
       ELSE LET i == CHOOSE x \in at : \A y \in at : x <= y
            IN <<SubSeq(str, 1, i - 1)>> \o Split(SubSeq(str, i + 1, Len(str)))

----------------------------------------------------------------------------
(* process_organizations *)

AuthorRow(eip, name, organizations) ==
    [EIP |-> eip, AuthorName |-> name, Organizations |-> organizations]

(* orgs = [org.strip() for org in orgs_str.split(';') if org.strip()] *)
RowOrgs(row) ==
    LET orgs_str == IF row.Organizations # NaN THEN row.Organizations ELSE <<>>
        pieces == Split(orgs_str)
    IN SelectSeq([i \in 1..Len(pieces) |-> Strip(pieces[i])], LAMBDA org : org # <<>>)

GroupingKeyPerAuthor(row) == <<row.EIP, row.AuthorName>>

(* eip = row['EIP'] *)
GroupingKey(row) == row.EIP

FallbackIndependent(row) == Str("Independent")

(* eip_orgs[eip].add(row['Author Name']) *)
FallbackEntity(row) == row.AuthorName

UsesFallbackPerEip(rows, i) ==
    \A j \in 1..Len(rows) : rows[j].EIP = rows[i].EIP => RowOrgs(rows[j]) = <<>>

(* if not orgs: decided for the row at hand *)
UsesFallback(rows, i) == RowOrgs(rows[i]) = <<>>

RECURSIVE BuildEipOrgs(_, _, _)
BuildEipOrgs(rows, i, dict) ==
    IF i > Len(rows) THEN dict
    ELSE LET row == rows[i]
             eip == GroupingKey(row)
             row_orgs == RowOrgs(row)
             known == IF eip \in DOMAIN dict THEN dict ELSE dict @@ (eip :> {})
             added == IF UsesFallback(rows, i) THEN {FallbackEntity(row)} ELSE Range(row_orgs)
         IN BuildEipOrgs(rows, i + 1, [known EXCEPT ![eip] = @ \cup added])

(* the (EIP, organization) pairs; their order does not survive the groupby *)
EipOrgPairs(dict) == UNION {{<<eip, org>> : org \in dict[eip]} : eip \in DOMAIN dict}

(* groupby('Organization')['EIP'].nunique() *)
NUnique(pairs, org) == Cardinality({p[1] : p \in {q \in pairs : q[2] = org}})

RECURSIVE SumCounts(_, _)
SumCounts(pairs, organizations) ==
    IF organizations = {} THEN 0
    ELSE LET org == CHOOSE x \in organizations : TRUE
         IN NUnique(pairs, org) + SumCounts(pairs, organizations \ {org})

TotalAsNumberOfEips(pairs) == Cardinality({p[1] : p \in pairs})

(* total_eips = eips_per_org['EIP_Count'].sum() *)
TotalEips(pairs) == SumCounts(pairs, {p[2] : p \in pairs})

process_organizations(rows) ==
    LET dict == BuildEipOrgs(rows, 1, <<>>)
        pairs == EipOrgPairs(dict)
        keys == SortedKeys({p[2] : p \in pairs})
        total_eips == TotalEips(pairs)
    IN [frame |-> rows,
        eip_orgs |-> dict,
        table |-> [i \in 1..Len(keys) |->
                      [Organization |-> keys[i],
                       EIP_Count |-> NUnique(pairs, keys[i]),
                       Share |-> Frac(NUnique(pairs, keys[i]), total_eips)]]]

----------------------------------------------------------------------------
(* get_organizations *)

LowerTable ==
    ("Alice" :> "alice") @@ ("Bob" :> "bob") @@ ("AliceGH" :> "alicegh") @@
    ("EF" :> "ef") @@ ("Geth" :> "geth") @@ ("Research" :> "research") @@
    ("MetaMask" :> "metamask") @@ ("PegaSys" :> "pegasys") @@
    ("Pantheon" :> "pantheon") @@ ("Solidity" :> "solidity") @@
    ("Agenda" :> "agenda") @@ ("Summary" :> "summary") @@ ("Notes" :> "notes") @@
    ("Attendees" :> "attendees") @@ ("Participants" :> "participants")

(* str.lower() *)
Lower(str) ==
    [i \in 1..Len(str) |-> IF str[i] \in DOMAIN LowerTable THEN LowerTable[str[i]] ELSE str[i]]

(* truth value of an Optional[str] *)
Truthy(str) == str # None /\ str # <<>>

EipAuthor(name, github, organization) ==
    [name |-> name, github |-> github, organization |-> organization]

(* if author.name.lower() in org_mapping *)
NameEntry(a, mapping) ==
    IF Lower(a.name) \in DOMAIN mapping THEN Range(mapping[Lower(a.name)]) ELSE {}

(* if author.github and author.github.lower() in org_mapping *)
GithubEntry(a, mapping) ==
    IF Truthy(a.github) /\ Lower(a.github) \in DOMAIN mapping
    THEN Range(mapping[Lower(a.github)]) ELSE {}

AddsOrganizationAlways(a, found) == Truthy(a.organization)

(* if author.organization and len(orgs) == 0 *)
AddsOrganization(a, found) == Truthy(a.organization) /\ found = {}

AddsGithubAlways(a, found) == Truthy(a.github)

(* if author.github and len(orgs) == 0 *)
AddsGithub(a, found) == Truthy(a.github) /\ found = {}

get_organizations(a, mapping) ==
    LET by_name == NameEntry(a, mapping)
        by_github == by_name \cup GithubEntry(a, mapping)
        with_org == IF AddsOrganization(a, by_github)
                    THEN by_github \cup {a.organization} ELSE by_github
    IN IF AddsGithub(a, with_org) THEN with_org \cup {a.github} ELSE with_org

----------------------------------------------------------------------------
(* load_organization_mapping *)

(* one item of the JSON object *)
Item(key, organizations) == [key |-> key, orgs |-> organizations]

(* for key, orgs in mapping.items(): case_insensitive_mapping[key.lower()] = orgs *)
RECURSIVE FoldItems(_, _, _)
FoldItems(items, i, dict) ==
    IF i > Len(items) THEN dict
    ELSE LET key == Lower(items[i].key)
         IN FoldItems(items, i + 1,
                IF key \in DOMAIN dict
                THEN [dict EXCEPT ![key] = items[i].orgs]
                ELSE dict @@ (key :> items[i].orgs))

load_organization_mapping(items) == FoldItems(items, 1, <<>>)

----------------------------------------------------------------------------
(* parse_eip_file: the extraction of one author.  A word atom stands for a run
   of the characters [\w-]; every other character is an atom of its own. *)

Punctuation == {" ", ";", ",", "*", "(", ")", "<", ">", ".", "@", "/", ":"}

IsWord(atom) == atom \notin Punctuation

Least(S) == CHOOSE x \in S : \A y \in S : x <= y

Greatest(S) == CHOOSE x \in S : \A y \in S : y <= x

(* a match of re.search: the atoms from..to of the string; from = 0 is no match *)
Match(from, to) == [from |-> from, to |-> to]

NoMatch == Match(0, 0)

Found(m) == m.from # 0

Group0(str, m) == SubSeq(str, m.from, m.to)

(* the one capture group lies inside the delimiters *)
Group1(str, m) == SubSeq(str, m.from + 1, m.to - 1)

(* the atoms from `open` to the first `close` after it, at the leftmost `open`
   for which the atoms in between hold `inside` (any atoms when `inside` is "") *)
Delimited(str, open, close, inside) ==
    LET ends(i) == {j \in (i + 1)..Len(str) : str[j] = close}
        starts == {i \in 1..Len(str) :
                     /\ str[i] = open
                     /\ ends(i) # {}
                     /\ \/ inside = ""
                        \/ \E k \in (i + 1)..(Least(ends(i)) - 1) : str[k] = inside}
    IN IF starts = {} THEN NoMatch
       ELSE Match(Least(starts), Least(ends(Least(starts))))

(* email_match: '<', a group without '>' that holds a '.', then '>' *)
EmailMatch(str) == Delimited(str, "<", ">", ".")

(* org_match: an opening parenthesis, a group without ')', then ')' *)
OrgMatch(str) == Delimited(str, "(", ")", "")

(* github_match: '@' and the longest run of [\w-] *)
GithubMatch(str) ==
    LET starts == {i \in 1..(Len(str) - 1) : str[i] = "@" /\ IsWord(str[i + 1])}
    IN IF starts = {} THEN NoMatch
       ELSE LET i == Least(starts)
            IN Match(i, Greatest({j \in (i + 1)..Len(str) :
                                     \A k \in (i + 1)..j : IsWord(str[k])}))

(* str.replace(sub, '') *)
RECURSIVE Remove(_, _)
Remove(str, sub) ==
    IF Len(str) < Len(sub) THEN str
    ELSE IF SubSeq(str, 1, Len(sub)) = sub
         THEN Remove(SubSeq(str, Len(sub) + 1, Len(str)), sub)
         ELSE <<str[1]>> \o Remove(Tail(str), sub)

extract_author_handle_first(entry) ==
    LET github_match == GithubMatch(entry)
        name1 == IF Found(github_match)
                 THEN Strip(Remove(entry, Group0(entry, github_match))) ELSE entry
        email_match == EmailMatch(name1)
        name2 == IF Found(email_match)
                 THEN Strip(Remove(name1, Group0(name1, email_match))) ELSE name1
        org_match == OrgMatch(name2)
        org_content == Group1(name2, org_match)
    IN [name |-> IF Found(org_match)
                 THEN Strip(Remove(name2, Group0(name2, org_match))) ELSE name2,
        email |-> IF Found(email_match) THEN Group1(name1, email_match) ELSE None,
        github |-> IF Found(github_match)
                   THEN SubSeq(entry, github_match.from + 1, github_match.to) ELSE None,
        organization |-> IF Found(org_match) /\ Strip(org_content) # <<>>
                         THEN org_content ELSE None]

(* the body of the loop over author_entries *)
extract_author(entry) ==
    LET email_match == EmailMatch(entry)
        name1 == IF Found(email_match)
                 THEN Strip(Remove(entry, Group0(entry, email_match))) ELSE entry
        github_match == GithubMatch(name1)
        name2 == IF Found(github_match)
                 THEN Strip(Remove(name1, Group0(name1, github_match))) ELSE name1
        org_match == OrgMatch(name2)
        org_content == Group1(name2, org_match)
    IN [name |-> IF Found(org_match)
                 THEN Strip(Remove(name2, Group0(name2, org_match))) ELSE name2,
        email |-> IF Found(email_match) THEN Group1(entry, email_match) ELSE None,
        github |-> IF Found(github_match)
                   THEN SubSeq(name1, github_match.from + 1, github_match.to) ELSE None,
        organization |-> IF Found(org_match) /\ Strip(org_content) # <<>>
                         THEN org_content ELSE None]

----------------------------------------------------------------------------
(* process_organization (scripts/update_org_mapping.py).  The words the rules
   look for are atoms of their own, so a word occurs in a string exactly when one
   of the string's atoms lower-cases to it. *)

StartsWith(str, word) == str # <<>> /\ Lower(<<str[1]>>) = <<word>>

(* re.search(word, org, re.IGNORECASE) *)
Contains(str, word) == \E i \in 1..Len(str) : Lower(<<str[i]>>) = <<word>>

(* re.match of '^EF[/:]' or '^EF\s', ignoring case *)
HasEFPrefix(str) == StartsWith(str, "ef") /\ Len(str) >= 2 /\ str[2] \in {"/", ":", " "}

(* re.sub of '^EF[/:]\s*' or '^EF\s+' by '' *)
AfterEFPrefix(str) ==
    IF ~HasEFPrefix(str) THEN str
    ELSE IF str[2] = " " THEN LStrip(SubSeq(str, 2, Len(str)))
    ELSE LStrip(SubSeq(str, 3, Len(str)))

KeepsEveryTeam(team) == team # <<>>

(* if team and team.lower() not in ['research', ''] *)
KeepsTeam(team) == team # <<>> /\ Lower(team) \notin {<<"research">>, <<>>}

ConsensysRuleMetaMaskOnly(str) == Contains(str, "metamask")

(* if re.search(r'metamask|pegasys', org, re.IGNORECASE) *)
ConsensysRule(str) == Contains(str, "metamask") \/ Contains(str, "pegasys")

GethRuleAnywhere(str) == Contains(str, "geth")

(* re.search of '^geth$', '^EF[/:]\s*geth' or '^EF\s+geth', ignoring case *)
GethRule(str) ==
    \/ Lower(str) = <<"geth">>
    \/ HasEFPrefix(str) /\ StartsWith(AfterEFPrefix(str), "geth")

process_organization(input) ==
    LET str == Strip(input)
        team == AfterEFPrefix(str)
        named == IF HasEFPrefix(str)
                 THEN {Str("Ethereum")} \cup (IF KeepsTeam(team) THEN {team} ELSE {})
                 ELSE IF Lower(str) = <<"ef">> THEN {Str("Ethereum")}
                 ELSE IF str # <<>> /\ Lower(str) # <<"research">> THEN {str}
                 ELSE {}
        consensys == IF ConsensysRule(str)
                     THEN {Str("Consensys")}
                          \cup (IF Contains(str, "pegasys") THEN {Str("PegaSys")} ELSE {})
                          \cup (IF Contains(str, "pantheon") THEN {Str("Pantheon")} ELSE {})
                     ELSE {}
        solidity == IF Contains(str, "solidity")
                    THEN {Str("Ethereum"), Str("Cantina")} ELSE {}
        geth == IF GethRule(str) THEN {Str("Geth"), Str("Ethereum")} ELSE {}
    IN named \cup consensys \cup solidity \cup geth

----------------------------------------------------------------------------
(* parse_attendance_csv and update_org_mapping (scripts/update_org_mapping.py) *)

AttendanceRow(attendee, organizations) ==
    [Attendee |-> attendee, Organizations |-> organizations]

(* for org in orgs.split(';'): process_organization(org.strip()) *)
ProcessTokens(organizations) ==
    LET tokens == Split(organizations)
    IN UNION {process_organization(Strip(tokens[i])) : i \in 1..Len(tokens)}

RECURSIVE ParseRows(_, _, _)
ParseRows(rows, i, dict) ==
    IF i > Len(rows) THEN dict
    ELSE LET attendee == Strip(rows[i].Attendee)
             organizations == Strip(rows[i].Organizations)
             known == IF attendee \in DOMAIN dict THEN dict ELSE dict @@ (attendee :> {})
         IN IF attendee = <<>> \/ organizations = <<>>
            THEN ParseRows(rows, i + 1, dict)
            ELSE ParseRows(rows, i + 1,
                     [known EXCEPT ![attendee] = @ \cup ProcessTokens(organizations)])

parse_attendance_csv(rows) == ParseRows(rows, 1, <<>>)

ReplacedEntry(old, new) == SortedKeys(new)

(* list(set(updated_mapping[attendee] + list(orgs))): the distinct labels of both;
   the order of the list is that of the set's iteration, the model lists them
   sorted *)
MergedEntry(old, new) == SortedKeys(Range(old) \cup new)

(* the loop over attendance_mapping.items() writes each key once *)
update_org_mapping(existing, attendance) ==
    [key \in DOMAIN existing \cup DOMAIN attendance |->
        IF key \notin DOMAIN attendance THEN existing[key]
        ELSE IF key \in DOMAIN existing THEN MergedEntry(existing[key], attendance[key])
        ELSE SortedKeys(attendance[key])]

----------------------------------------------------------------------------
(* filter_eips *)

EipRecord(eip, category, state, name, organizations) ==
    [EIP |-> eip, Category |-> category, Status |-> state, AuthorName |-> name,
     Organizations |-> organizations]

IsErc(record) == record.Category = Str("ERC")

(* (df['Category'] == 'ERC') & (df['Status'] == 'Moved') *)
IsMovedErc(record) == record.Category = Str("ERC") /\ record.Status = Str("Moved")

filter_eips_skipping_first(frame, state) ==
    LET kept == SelectSeq(frame, LAMBDA record : ~IsMovedErc(record))
    IN IF kept = <<>> THEN kept ELSE Tail(kept)

filter_eips(frame, state) ==
    LET base == SelectSeq(frame, LAMBDA record : ~IsMovedErc(record))
    IN IF Truthy(state)
       THEN SelectSeq(base, LAMBDA record : record.Status = state)
       ELSE base

----------------------------------------------------------------------------
(* compute_eip_nakamoto *)

(* df[column] raises KeyError when the frame has no such column *)
HasColumns(frame, columns) == \A i \in 1..Len(frame) : columns \subseteq DOMAIN frame[i]

(* the columns 'Organization' and 'Share' of eips_per_org: EIP_Count / total_eips *)
ShareRows(table) == [i \in 1..Len(table) |-> Row(table[i].Organization, table[i].Share.num)]

ShareUnit(table) == IF table = <<>> THEN 1 ELSE table[1].Share.den

(* the frame handed to process_organizations, its result, and the values the
   coefficient can take *)
compute_eip_nakamoto(frame, state) ==
    IF ~HasColumns(frame, {"Category", "Status"})
    THEN [filtered |-> <<>>, organizations |-> process_organizations(<<>>),
          coefficient |-> {KeyError}]
    ELSE LET filtered == filter_eips(frame, state)
         IN IF ~HasColumns(filtered, {"EIP", "Organizations", "AuthorName"})
            THEN [filtered |-> filtered, organizations |-> process_organizations(<<>>),
                  coefficient |-> {KeyError}]
            ELSE LET result == process_organizations(filtered)
                 IN [filtered |-> filtered, organizations |-> result,
                     coefficient |->
                         compute_nakamoto_coefficient(ShareRows(result.table),
                                                      ShareUnit(result.table), Half)]

SelectsNotDraft(record) == record.Status # Str("Draft")

(* authors_df['Status'] == 'Final' *)
SelectsFinal(record) == record.Status = Str("Final")

compute_accepted_eip_nakamoto(frame) ==
    IF ~HasColumns(frame, {"Status"}) THEN {KeyError}
    ELSE LET accepted_df == SelectSeq(frame, SelectsFinal)
         IN IF ~HasColumns(accepted_df, {"EIP", "Organizations", "AuthorName"})
            THEN {KeyError}
            ELSE LET table == process_organizations(accepted_df).table
                 IN compute_nakamoto_coefficient(ShareRows(table), ShareUnit(table), Half)

----------------------------------------------------------------------------
(* extract_meeting_attendees (src/parse_core_devs.py).  The text of the notes is
   a sequence of atoms in which a newline, a '#', a bullet mark and a colon are
   atoms of their own.  The texts have no markdown links, no diamond marks and no
   horizontal rules, so of the bullet pattern's alternatives only the last one,
   the rest of the line, can match. *)

Newline == "\n"

(* str.split(sep) *)
RECURSIVE SplitOn(_, _)
SplitOn(str, sep) ==
    LET at == {i \in 1..Len(str) : str[i] = sep}
    IN IF at = {} THEN <<str>>
       ELSE LET i == CHOOSE x \in at : \A y \in at : x <= y
            IN <<SubSeq(str, 1, i - 1)>> \o SplitOn(SubSeq(str, i + 1, Len(str)), sep)

(* the atoms that are one character long *)
OneCharAtoms == {" ", Newline, "#", "-", "*", ",", ":", ";", "A", "B", "C", "D", "E"}

(* len(name) > 1 *)
LongerThanOne(name) == Len(name) > 1 \/ (Len(name) = 1 /\ name[1] \notin OneCharAtoms)

(* str.rstrip(marks) *)
RECURSIVE RStripOf(_, _)
RStripOf(str, marks) ==
    IF str # <<>> /\ str[Len(str)] \in marks
    THEN RStripOf(SubSeq(str, 1, Len(str) - 1), marks) ELSE str

(* name.rstrip(',*') *)
RStripMarks(str) == RStripOf(str, {",", "*"})

(* name.strip().rstrip(',*') *)
CleanName(name) == RStripMarks(Strip(name))

(* the first position from i on that holds no whitespace, Len + 1 when none *)
SkipWhitespace(str, i) ==
    Least({j \in i..Len(str) : str[j] \notin Whitespace} \cup {Len(str) + 1})

(* the position of the first newline from i on, Len + 1 when none *)
LineEnd(str, i) == Least({j \in i..Len(str) : str[j] = Newline} \cup {Len(str) + 1})

(* '(?:^|\n)': the match begins at the start of the text or with a newline *)
LineStartAt(str, s) == (s = 1 /\ str[1] # Newline) \/ str[s] = Newline

(* the position after '(?:^|\n)' *)
AfterLineStart(str, s) == IF str[s] = Newline THEN s + 1 ELSE s

(* the number of '#' from position h on *)
HashRun(str, h) == Least({j \in h..Len(str) : str[j] # "#"} \cup {Len(str) + 1}) - h

(* '#{1,3}\s+Attendees': the position after the word, 0 when the text from s on
   does not begin with a heading *)
AfterHeading(str, s) ==
    LET h == AfterLineStart(str, s)
        w == h + HashRun(str, h)
        a == SkipWhitespace(str, w)
    IN IF /\ s \in 1..Len(str)
          /\ LineStartAt(str, s)
          /\ HashRun(str, h) \in 1..3
          /\ a > w
          /\ a <= Len(str)
          /\ str[a] = "Attendees"
       THEN a + 1 ELSE 0

(* the lookahead that ends a section: a newline and a heading, a newline and a
   rule, two empty lines, or the end of the text *)
SectionEndsAt(str, q) ==
    \/ q > Len(str)
    \/ /\ str[q] = Newline
       /\ q + 1 <= Len(str)
       /\ \/ str[q + 1] \in {"#", "----"}
          \/ str[q + 1] = Newline /\ q + 2 <= Len(str) /\ str[q + 2] = Newline

(* '\s*\n+?(.*?)' after the heading: the run of whitespace must hold a newline,
   and the greedy \s* leaves the last of them to \n+?, so that the section begins
   after the last newline of the run *)
SectionStart(str, b) ==
    LET e == SkipWhitespace(str, b)
        newlines == {j \in b..(e - 1) : str[j] = Newline}
    IN IF newlines = {} THEN 0 ELSE Greatest(newlines) + 1

(* a heading section matches at s *)
SectionAt(str, s) == AfterHeading(str, s) > 0 /\ SectionStart(str, AfterHeading(str, s)) > 0

(* re.finditer of the section pattern from pos on: the captured texts and where
   each match ends *)
RECURSIVE Sections(_, _)
Sections(str, pos) ==
    LET at == {s \in pos..Len(str) : SectionAt(str, s)}
    IN IF at = {} THEN {}
       ELSE LET s == Least(at)
                from == SectionStart(str, AfterHeading(str, s))
                to == Least({q \in from..(Len(str) + 1) : SectionEndsAt(str, q)})
            IN {SubSeq(str, from, to - 1)} \cup Sections(str, to)

BulletMarks == {"-", "*"}

(* '[-*]\s+' and a character to go on with *)
BulletAt(str, i) ==
    /\ str[i] \in BulletMarks
    /\ i + 1 <= Len(str)
    /\ str[i + 1] \in Whitespace
    /\ SkipWhitespace(str, i + 1) <= Len(str)

(* re.finditer of the bullet pattern over a stripped text: after the mark and its
   whitespace (newlines included) the item is the rest of the line *)
RECURSIVE BulletItems(_, _)
BulletItems(str, pos) ==
    LET at == {i \in pos..Len(str) : BulletAt(str, i)}
    IN IF at = {} THEN {}
       ELSE LET from == SkipWhitespace(str, Least(at) + 1)
                to == LineEnd(str, from)
            IN {SubSeq(str, from, to - 1)} \cup BulletItems(str, to)

StopList == {<<"agenda">>, <<"summary">>, <<"actions">>, <<"notes">>}

(* name.lower() in ['agenda', 'summary', 'actions', 'notes'] *)
IsSectionLabel(item) == Lower(item) \in StopList

(* the loop over bullet_items: the stoplist is consulted before the item is
   trimmed *)
BulletNames(str) ==
    {CleanName(item) : item \in {x \in BulletItems(str, 1) : ~IsSectionLabel(x)}}

(* if name and len(name) > 1 *)
KeepsName(name) == name # <<>> /\ LongerThanOne(name)

(* a section without '-' and '*': comma-separated lines when a line has a comma,
   else one name per line *)
ListNames(str) ==
    IF \E i \in 1..Len(str) : str[i] \in BulletMarks \cup {"----"} THEN {}
    ELSE LET split == SplitOn(str, Newline)
             lines == {Strip(split[i]) : i \in 1..Len(split)} \ {<<>>}
             tokens == IF \E line \in lines : "," \in Range(line)
                       THEN UNION {Range(SplitOn(line, ",")) : line \in lines}
                       ELSE lines
         IN {name \in {CleanName(t) : t \in tokens} : KeepsName(name)}

(* the body of the loop over attendee_sections *)
SectionNames(section) ==
    LET section_text == Strip(section)
    IN BulletNames(section_text) \cup ListNames(section_text)

InlineLabels == {"Attendees", "Participants"}

InlineAtWithoutSection(str, s) ==
    LET l == AfterLineStart(str, s)
    IN /\ Sections(str, 1) = {}
       /\ LineStartAt(str, s)
       /\ l + 1 <= Len(str)
       /\ str[l] \in InlineLabels
       /\ str[l + 1] = ":"

(* '(?:^|\n)(?:Attendees|Participants):' *)
InlineAt(str, s) ==
    LET l == AfterLineStart(str, s)
    IN /\ LineStartAt(str, s)
       /\ l + 1 <= Len(str)
       /\ str[l] \in InlineLabels
       /\ str[l + 1] = ":"

(* the terminator of the inline list: an empty line, a heading or the end *)
InlineEndsAt(str, q) ==
    \/ q > Len(str)
    \/ str[q] = Newline /\ q + 1 <= Len(str) /\ str[q + 1] \in {Newline, "#"}

(* Pattern 2: re.search of the inline label, whatever the sections gave *)
InlineNames(str) ==
    LET at == {s \in 1..Len(str) : InlineAt(str, s)}
    IN IF at = {} THEN {}
       ELSE LET from == SkipWhitespace(str, AfterLineStart(str, Least(at)) + 2)
                to == Least({q \in from..(Len(str) + 1) : InlineEndsAt(str, q)})
                attendee_text == Strip(SubSeq(str, from, to - 1))
                lines == Range(SplitOn(attendee_text, Newline))
                tokens == UNION {Range(SplitOn(line, ",")) : line \in lines}
            IN {name \in {CleanName(t) : t \in tokens} :
                   KeepsName(name) /\ name[1] # "-"}

(* one '[-*]\s+[^\n]+\n?' at i: the position after it, 0 when there is none.  When
   the whitespace runs to the end of the text its last blank is given back to be
   the item. *)
AfterBulletLine(str, i) ==
    IF ~(i + 1 <= Len(str) /\ str[i] \in BulletMarks /\ str[i + 1] \in Whitespace) THEN 0
    ELSE LET from == SkipWhitespace(str, i + 1)
             to == LineEnd(str, from)
         IN IF from <= Len(str) THEN (IF to <= Len(str) THEN to + 1 ELSE to)
            ELSE IF Len(str) >= i + 2 /\ str[Len(str)] = " " THEN Len(str) + 1
            ELSE 0

(* '(?:[-*]\s+[^\n]+\n?)+' from i on: the position after the last bullet line *)
RECURSIVE AfterBulletBlock(_, _)
AfterBulletBlock(str, i) ==
    IF AfterBulletLine(str, i) = 0 THEN i ELSE AfterBulletBlock(str, AfterBulletLine(str, i))

(* the fallback pattern at s: a heading, whitespace that ends in a newline, and a
   bullet line right after it; the position of that bullet, 0 when there is none *)
BulletBlockAt(str, s) ==
    LET b == AfterHeading(str, s)
        e == SkipWhitespace(str, b)
    IN IF b > 0 /\ e > b /\ str[e - 1] = Newline /\ AfterBulletLine(str, e) > 0
       THEN e ELSE 0

(* Fallback pattern: re.search of a heading followed by bullet lines *)
FallbackNames(str) ==
    LET at == {s \in 1..Len(str) : BulletBlockAt(str, s) > 0}
    IN IF at = {} THEN {}
       ELSE LET from == BulletBlockAt(str, Least(at))
                bullet_text == Strip(SubSeq(str, from, AfterBulletBlock(str, from) - 1))
            IN BulletNames(bullet_text)

(* the attendee set of one notes file *)
extract_meeting_attendees(str) ==
    UNION {SectionNames(section) : section \in Sections(str, 1)}
        \cup InlineNames(str) \cup FallbackNames(str)

----------------------------------------------------------------------------
(* process_eips_repository and process_core_dev_meetings: the batches.  A file is
   held by what the parser reads from it; a mapping entry may be null, as a JSON
   file allows. *)

(* an author field that is a list holding a number: re.search raises TypeError *)
NumberList == <<"<[42]>">>

(* a notes file that is not UTF-8: f.read() raises UnicodeDecodeError *)
Undecodable == <<"<not utf-8>">>

(* the value null of a mapping entry *)
Null == <<None>>

EipFile(number, authors_raw) == [eip_number |-> number, author |-> authors_raw]

(* parse_eip_file never raises: except Exception: return None *)
ExtractionRaises(file) == file.author = NumberList

(* [a.strip() for a in authors_raw.split(',')], each entry extracted *)
parse_eip_file(file) ==
    LET author_entries == SplitOn(file.author, ",")
    IN [eip_number |-> file.eip_number,
        authors |-> [i \in 1..Len(author_entries) |-> extract_author(Strip(author_entries[i]))]]

(* orgs.update(None) raises TypeError: the entry under the name or under the
   handle is null *)
ResolutionRaises(a, mapping) ==
    \/ Lower(a.name) \in DOMAIN mapping /\ mapping[Lower(a.name)] = Null
    \/ Truthy(a.github) /\ Lower(a.github) \in DOMAIN mapping /\ mapping[Lower(a.github)] = Null

(* '; '.join(sorted(organizations)) if organizations else '' *)
RECURSIVE JoinOrganizations(_)
JoinOrganizations(labels) ==
    IF labels = <<>> THEN <<>>
    ELSE IF Len(labels) = 1 THEN labels[1]
    ELSE labels[1] \o <<";", " ">> \o JoinOrganizations(Tail(labels))

(* the (EIP, author) pairs in the order of the two nested write loops *)
RECURSIVE AuthorPairs(_)
AuthorPairs(metadata_list) ==
    IF metadata_list = <<>> THEN <<>>
    ELSE [i \in 1..Len(metadata_list[1].authors) |->
             [eip_number |-> metadata_list[1].eip_number, author |-> metadata_list[1].authors[i]]]
         \o AuthorPairs(Tail(metadata_list))

(* the output file after the function has run: its rows, and whether the function
   was left by an exception *)
Written(rows, raised) == [rows |-> rows, raised |-> raised, run |-> TRUE]

(* before the function has run *)
NotWritten == [rows |-> <<>>, raised |-> FALSE, run |-> FALSE]

(* the write loop of process_eips_repository: get_organizations is called outside
   any try, so what it raises ends the loop and leaves the function *)
RECURSIVE WriteAuthorRows(_, _, _, _)
WriteAuthorRows(pairs, i, mapping, rows) ==
    IF i > Len(pairs) THEN Written(rows, FALSE)
    ELSE IF ResolutionRaises(pairs[i].author, mapping) THEN Written(rows, TRUE)
    ELSE WriteAuthorRows(pairs, i + 1, mapping,
             Append(rows, AuthorRow(pairs[i].eip_number, pairs[i].author.name,
                 JoinOrganizations(SortedKeys(get_organizations(pairs[i].author, mapping))))))

process_eips_repository(files, items) ==
    LET org_mapping_loaded == load_organization_mapping(items)
        parsed_files == SelectSeq(files, LAMBDA file : ~ExtractionRaises(file))
        eip_metadata_list == [i \in 1..Len(parsed_files) |-> parse_eip_file(parsed_files[i])]
    IN WriteAuthorRows(AuthorPairs(eip_metadata_list), 1, org_mapping_loaded, <<>>)

MeetingFile(number, text) == [meeting_number |-> number, content |-> text]

MeetingData(number, names) == [meeting_number |-> number, attendees |-> names]

(* extract_meeting_attendees never raises: except Exception: return
   MeetingData(meeting_number=0, attendees=[]) *)
MeetingOf(file) ==
    IF file.content = Undecodable THEN MeetingData(0, {})
    ELSE MeetingData(file.meeting_number, extract_meeting_attendees(file.content))

(* a '(' that is followed by a non-empty group without ')' and a ')': the
   position of that ')', 0 when there is none *)
ClosesAt(str, i) ==
    LET ends == {j \in (i + 1)..Len(str) : str[j] = ")"}
    IN IF str[i] = "(" /\ ends # {} /\ Least(ends) >= i + 2 THEN Least(ends) ELSE 0

(* re.sub of optional whitespace and a parenthesised group by '' *)
RECURSIVE WithoutParentheses(_)
WithoutParentheses(str) ==
    LET at == {i \in 1..Len(str) : ClosesAt(str, i) > 0}
    IN IF at = {} THEN str
       ELSE LET i == Least(at)
                blanks == {k \in 1..i : \A j \in k..(i - 1) : str[j] \in Whitespace}
            IN SubSeq(str, 1, Least(blanks) - 1)
                   \o WithoutParentheses(SubSeq(str, ClosesAt(str, i) + 1, Len(str)))

(* orgs.update(None) in map_attendee_to_organizations *)
AttendeeResolutionRaises(attendee, mapping) ==
    LET clean_name == CleanName(WithoutParentheses(attendee))
        github_match == GithubMatch(clean_name)
        handle == Lower(SubSeq(clean_name, github_match.from + 1, github_match.to))
    IN /\ {i \in 2..Len(attendee) : ClosesAt(attendee, i) > 0} = {}
       /\ \/ Lower(clean_name) \in DOMAIN mapping /\ mapping[Lower(clean_name)] = Null
          \/ Found(github_match) /\ handle \in DOMAIN mapping /\ mapping[handle] = Null

map_attendee_to_organizations(attendee, mapping) ==
    LET at == {i \in 2..Len(attendee) : ClosesAt(attendee, i) > 0}
        clean_name == CleanName(WithoutParentheses(attendee))
        github_match == GithubMatch(clean_name)
        handle == Lower(SubSeq(clean_name, github_match.from + 1, github_match.to))
    IN IF at # {}
       THEN {Strip(SubSeq(attendee, Least(at) + 1, ClosesAt(attendee, Least(at)) - 1))}
       ELSE (IF Lower(clean_name) \in DOMAIN mapping
             THEN Range(mapping[Lower(clean_name)]) ELSE {})
            \cup (IF Found(github_match) /\ handle \in DOMAIN mapping
                  THEN Range(mapping[handle]) ELSE {})

AttendanceLine(number, attendee, organizations) ==
    [MeetingNumber |-> number, Attendee |-> attendee, Organizations |-> organizations]

(* list(attendees): the elements of the set in any order *)
Orders(S) ==
    {f \in [1..Cardinality(S) -> S] : \A i, j \in 1..Cardinality(S) : f[i] = f[j] => i = j}

(* the (meeting, attendee) pairs in the orders the write loops may take *)
RECURSIVE AttendeePairs(_)
AttendeePairs(meeting_data_list) ==
    IF meeting_data_list = <<>> THEN {<<>>}
    ELSE {[i \in 1..Len(order) |->
              [meeting_number |-> meeting_data_list[1].meeting_number, attendee |-> order[i]]]
          \o rest : order \in Orders(meeting_data_list[1].attendees),
                    rest \in AttendeePairs(Tail(meeting_data_list))}

(* the write loop of process_core_dev_meetings: map_attendee_to_organizations is
   called outside any try; it returns list(orgs), the labels in any order *)
RECURSIVE WriteAttendanceRows(_, _, _, _)
WriteAttendanceRows(pairs, i, mapping, rows) ==
    IF i > Len(pairs) THEN {Written(rows, FALSE)}
    ELSE IF AttendeeResolutionRaises(pairs[i].attendee, mapping) THEN {Written(rows, TRUE)}
    ELSE UNION {WriteAttendanceRows(pairs, i + 1, mapping,
                    Append(rows, AttendanceLine(pairs[i].meeting_number,
                        RStripOf(Strip(WithoutParentheses(pairs[i].attendee)), {","}),
                        JoinOrganizations(organizations)))) :
                organizations \in Orders(map_attendee_to_organizations(pairs[i].attendee, mapping))}

(* the outcomes of process_core_dev_meetings, one for each order of the attendees *)
process_core_dev_meetings(files, items) ==
    LET org_mapping_loaded == load_organization_mapping(items)
        meetings == [i \in 1..Len(files) |-> MeetingOf(files[i])]
        meeting_data_list == SelectSeq(meetings, LAMBDA meeting : meeting.meeting_number > 0)
    IN UNION {WriteAttendanceRows(pairs, 1, org_mapping_loaded, <<>>) :
                 pairs \in AttendeePairs(meeting_data_list)}

----------------------------------------------------------------------------
(* Inputs *)

Thresholds(u) == {Frac(n, u) : n \in 0..MaxThreshold} \cup {Half}

InitCoef ==
    /\ \/ /\ df \in SeqsUpTo(GenRows, MaxRows)
          /\ unit = GenUnit
       \/ /\ df \in TestTables
          /\ unit = TestUnit
    /\ threshold = Frac(0, 1)
    /\ entities_needed = NotRun
    /\ prevThreshold = Frac(0, 1)
    /\ prevNeeded = NotRun
    /\ nakamoto = NotRun
    /\ vizNeeded = NotRun

(* tables with repeated entities and equal shares *)
OrderRows == {Row(e, s) : e \in GenEntities, s \in {1, 2}}

InitOrder ==
    /\ df \in SeqsUpTo(OrderRows, MaxOrderRows)
    /\ unit = GenUnit
    /\ threshold = Frac(0, 1)
    /\ entities_needed = NotRun
    /\ prevThreshold = Frac(0, 1)
    /\ prevNeeded = NotRun
    /\ nakamoto = NotRun
    /\ vizNeeded = NotRun

IdleCoef ==
    /\ df = <<>>
    /\ unit = GenUnit
    /\ threshold = Frac(0, 1)
    /\ entities_needed = NotRun
    /\ prevThreshold = Frac(0, 1)
    /\ prevNeeded = NotRun
    /\ nakamoto = NotRun
    /\ vizNeeded = NotRun

EipNumbers == {1, 2}

AuthorNames == {Str("alice"), Str("bob")}

(* Organizations fields as process_eips_repository writes them ('; '.join), and
   hand-edited ones: missing, empty, blank, padded, with empty tokens *)
OrganizationsFields ==
    {NaN, <<>>, <<" ">>, <<";">>,
     <<"Ethereum">>, <<"Geth">>,
     <<"Ethereum", ";", " ", "Geth">>,
     <<" ", "Geth", " ", ";">>}

AuthorRows ==
    {AuthorRow(e, n, o) : e \in EipNumbers, n \in AuthorNames, o \in OrganizationsFields}

InitOrgs ==
    /\ accepted_eips \in SeqsUpTo(AuthorRows, MaxAuthorRows)
    /\ eip_orgs = <<>>
    /\ eips_per_org = <<>>
    /\ processed = FALSE

IdleOrgs ==
    /\ accepted_eips = <<>>
    /\ eip_orgs = <<>>
    /\ eips_per_org = <<>>
    /\ processed = FALSE

Labels == {Str("Ethereum"), Str("Geth")}

MappingKeys == {Str("alice"), Str("alicegh"), Str("bob")}

MappingValues == {<<>>, <<Str("Ethereum")>>, <<Str("Geth")>>, <<Str("Ethereum"), Str("Geth")>>}

(* the mappings load_organization_mapping returns: lower-case keys *)
OrgMappings == UNION {[K -> MappingValues] : K \in SUBSET MappingKeys}

EipAuthors ==
    {EipAuthor(n, g, o) :
        n \in {Str("Alice"), Str("alice"), Str("Bob")},
        g \in {None, <<>>, Str("AliceGH"), Str("bob")},
        o \in {None, Str("Consensys")}}

InitResolve ==
    /\ author \in EipAuthors
    /\ org_mapping \in OrgMappings
    /\ orgs = {}
    /\ resolved = FALSE

IdleResolve ==
    /\ author = EipAuthor(<<>>, None, None)
    /\ org_mapping = <<>>
    /\ orgs = {}
    /\ resolved = FALSE

(* keys of the mapping file as they are written: names and handles in any case *)
FileKeys == {Str("Alice"), Str("alice"), Str("Bob"), Str("bob")}

Items == {Item(k, v) : k \in FileKeys, v \in MappingValues}

(* a JSON object keeps one item per key *)
MappingFiles ==
    {items \in SeqsUpTo(Items, MaxItems) :
        \A i, j \in 1..Len(items) : items[i].key = items[j].key => i = j}

InitLoad ==
    /\ mapping_file \in MappingFiles
    /\ loaded = FALSE

(* entries of an author field after the split on ',' and strip(): a name, then
   optionally an inline organization, a handle and an address in angle brackets,
   or the address before the organization *)
EntryNames == {<<"Alice">>, <<"Bob">>}

EntryOrganizations ==
    {<<>>, <<" ", "(", "Consensys", ")">>, <<" ", "(", " ", "Consensys", " ", ")">>,
     <<" ", "(", ")">>, <<" ", "(", " ", ")">>}

EntryHandles == {<<>>, <<" ", "(", "@", "AliceGH", ")">>, <<" ", "@", "bob">>}

EntryEmails ==
    {<<>>, <<" ", "<", "alice", "@", "example", ".", "com", ">">>,
     <<" ", "<", "bob", "@", "home", ">">>}

AuthorEntries ==
    {n \o o \o h \o e :
        n \in EntryNames, o \in EntryOrganizations, h \in EntryHandles, e \in EntryEmails}
    \cup {n \o e \o o : n \in EntryNames, o \in EntryOrganizations, e \in EntryEmails}
    \cup {n \o <<"*">> \o e : n \in EntryNames, e \in EntryEmails}

InitExtract ==
    /\ author_entry \in AuthorEntries
    /\ email = None
    /\ extracted = FALSE

IdleExtract ==
    /\ author_entry = <<>>
    /\ email = None
    /\ extracted = FALSE

(* organization strings of the attendance file: EF forms, the words the rules
   look for in either case, separators and blanks *)
OrgAtoms ==
    {"EF", "ef", "/", ":", " ", "Geth", "Research", "PegaSys", "Pantheon", "MetaMask",
     "Solidity"}

InitCanon ==
    /\ raw_org \in SeqsUpTo(OrgAtoms, MaxOrgLen)
    /\ processed_orgs = {}
    /\ canonical = FALSE

IdleCanon ==
    /\ raw_org = <<>>
    /\ processed_orgs = {}
    /\ canonical = FALSE

Attendees == {<<"Alice">>, <<" ", "Alice", " ">>, <<"Bob">>, <<>>}

AttendanceOrganizations ==
    {<<>>, <<"EF", "/", "Geth">>, <<"Research", ";", "PegaSys">>,
     <<" ", "Geth", " ", ";", " ", "Ethereum">>}

AttendanceRows ==
    {AttendanceRow(a, o) : a \in Attendees, o \in AttendanceOrganizations}

ExistingKeys == {<<"Alice">>, <<"Bob">>}

ExistingValues == {<<>>, <<Str("Ethereum")>>, <<Str("Consensys"), Str("Geth")>>}

ExistingMappings == UNION {[K -> ExistingValues] : K \in SUBSET ExistingKeys}

InitUpdate ==
    /\ existing_mapping \in ExistingMappings
    /\ attendance_file \in SeqsUpTo(AttendanceRows, MaxAttendanceRows)
    /\ attendance_mapping = <<>>
    /\ updated_mapping = <<>>
    /\ parsed = FALSE
    /\ updated = FALSE

IdleUpdate ==
    /\ existing_mapping = <<>>
    /\ attendance_file = <<>>
    /\ attendance_mapping = <<>>
    /\ updated_mapping = <<>>
    /\ parsed = FALSE
    /\ updated = FALSE

Categories == {Str("Core"), Str("ERC")}

Statuses == {Str("Final"), Str("Moved"), Str("Draft")}

EipRecords ==
    {EipRecord(e, c, s, Str("alice"), o) :
        e \in EipNumbers, c \in Categories, s \in Statuses, o \in Labels}

(* status=None, a status, or the empty string *)
StatusArguments == {None, <<>>, Str("Final"), Str("Moved")}

InitFilter ==
    /\ authors_df \in SeqsUpTo(EipRecords, MaxRecords)
    /\ status \in StatusArguments
    /\ filtered_df = <<>>
    /\ refiltered_df = <<>>
    /\ filter_calls = 0
    /\ eip_nakamoto = NotRun
    /\ accepted_nakamoto = NotRun

IdleFilter ==
    /\ authors_df = <<>>
    /\ status = None
    /\ filtered_df = <<>>
    /\ refiltered_df = <<>>
    /\ filter_calls = 0
    /\ eip_nakamoto = NotRun
    /\ accepted_nakamoto = NotRun

(* test_compute_eip_nakamoto: columns EIP, Title, Status, Organization *)
TestRecord(eip, state, organization) ==
    [EIP |-> eip, Title |-> Str("Title"), Status |-> state, Organization |-> organization]

TestStatuses ==
    <<"Final", "Final", "Draft", "Final", "Living", "Draft", "Final", "Last Call", "Draft",
      "Final">>

TestOrganizations ==
    <<"Org1", "Org2", "Org3", "Org1", "Org2", "Org3", "Org1", "Org2", "Org3", "Org4">>

TestEips ==
    [i \in 1..Len(TestStatuses) |->
        TestRecord(i, Str(TestStatuses[i]), Str(TestOrganizations[i]))]

(* the same records under the column names of authors.csv *)
TestEipsAsCsv ==
    [i \in 1..Len(TestStatuses) |->
        EipRecord(i, Str("Core"), Str(TestStatuses[i]), Str("alice"),
                  Str(TestOrganizations[i]))]

InitEip ==
    /\ authors_df \in {TestEips, TestEipsAsCsv} \cup SeqsUpTo(EipRecords, MaxRecords)
    /\ status \in {None, Str("Final")}
    /\ filtered_df = <<>>
    /\ refiltered_df = <<>>
    /\ filter_calls = 0
    /\ eip_nakamoto = NotRun
    /\ accepted_nakamoto = NotRun

IdleLoad ==
    /\ mapping_file = <<>>
    /\ loaded = FALSE

(* the lines of a notes file: headings, bullets, names, comma-separated names,
   inline labels and the empty line *)
NoteLines ==
    {<<"#", " ", "Attendees">>, <<"#", "#", " ", "Agenda">>,
     <<"-", " ", "Alice">>, <<"-", " ", "Notes", "*">>, <<"*", " ", "Agenda">>,
     <<"Bob">>, <<"Bob", " ", "*">>, <<"Alice", ",", " ", "Summary">>,
     <<"Attendees", ":", " ", "Alice", ",", " ", "Notes">>,
     <<"Participants", ":", " ", "Bob", "*">>,
     <<>>}

(* '\n'.join(lines) *)
RECURSIVE JoinLines(_)
JoinLines(lines) ==
    IF lines = <<>> THEN <<>>
    ELSE IF Len(lines) = 1 THEN lines[1]
    ELSE lines[1] \o <<Newline>> \o JoinLines(Tail(lines))

NoteTexts == {JoinLines(lines) : lines \in SeqsUpTo(NoteLines, MaxLines)}

InitMeet ==
    /\ content \in NoteTexts
    /\ attendees = {}
    /\ meeting_read = FALSE

IdleMeet ==
    /\ content = <<>>
    /\ attendees = {}
    /\ meeting_read = FALSE

(* the EIP files of a repository: one or two authors, or an author field that
   cannot be parsed *)
EipFiles ==
    {EipFile(n, a) : n \in 1..2,
                     a \in {Str("Alice"), Str("Bob"), <<"Bob", ",", " ", "Alice">>, NumberList}}

(* the notes files of a repository: with and without a meeting number in the
   path, readable or not *)
MeetingFiles ==
    {MeetingFile(n, c) : n \in 0..1,
                         c \in {JoinLines(<<<<"#", " ", "Attendees">>, <<"-", " ", "Alice">>>>),
                                JoinLines(<<<<"#", " ", "Attendees">>,
                                            <<"-", " ", "Bob", " ", "(", "Geth", ")">>,
                                            <<"-", " ", "Alice">>>>),
                                Undecodable}}

(* mapping files: empty, with an entry for alice, with a null entry for alice *)
BatchMappings ==
    {<<>>, <<Item(Str("Alice"), <<Str("Ethereum")>>)>>, <<Item(Str("Alice"), Null)>>}

InitBatch ==
    /\ eip_files \in SeqsUpTo(EipFiles, MaxFiles)
    /\ meeting_files \in SeqsUpTo(MeetingFiles, MaxFiles)
    /\ mapping_items \in BatchMappings
    /\ authors_csv = NotWritten
    /\ attendance_csv = NotWritten

IdleBatch ==
    /\ eip_files = <<>>
    /\ meeting_files = <<>>
    /\ mapping_items = <<>>
    /\ authors_csv = NotWritten
    /\ attendance_csv = NotWritten

----------------------------------------------------------------------------
(* Operations *)

Call(t) ==
    /\ threshold' = t
    /\ entities_needed' \in compute_nakamoto_coefficient(df, unit, t)
    /\ prevThreshold' = threshold
    /\ prevNeeded' = entities_needed
    /\ UNCHANGED <<df, unit, nakamoto, vizNeeded, restOfCoef>>

ComputeNakamotoCoefficient == \E t \in Thresholds(unit) : Call(t)

ComputeNakamotoCoefficientDefault ==
    /\ entities_needed = NotRun
    /\ Call(Half)

GenerateTextReport ==
    /\ nakamoto' \in generate_text_report(df, unit)
    /\ UNCHANGED <<df, unit, threshold, entities_needed, prevThreshold, prevNeeded, vizNeeded,
                   restOfCoef>>

TextVisualizeShares ==
    /\ vizNeeded' \in text_visualize_shares(df, unit)
    /\ UNCHANGED <<df, unit, threshold, entities_needed, prevThreshold, prevNeeded, nakamoto,
                   restOfCoef>>

ProcessOrganizations ==
    /\ LET result == process_organizations(accepted_eips)
       IN /\ accepted_eips' = result.frame
          /\ eip_orgs' = result.eip_orgs
          /\ eips_per_org' = result.table
    /\ processed' = TRUE
    /\ UNCHANGED restOfOrgs

GetOrganizations ==
    /\ orgs' = get_organizations(author, org_mapping)
    /\ resolved' = TRUE
    /\ UNCHANGED <<author, org_mapping, restOfResolve>>

LoadOrganizationMapping ==
    /\ ~loaded
    /\ org_mapping' = load_organization_mapping(mapping_file)
    /\ loaded' = TRUE
    /\ UNCHANGED <<mapping_file, author, orgs, resolved, restOfLoad>>

ExtractAuthor ==
    /\ ~extracted
    /\ LET fields == extract_author(author_entry)
       IN /\ author' = EipAuthor(fields.name, fields.github, fields.organization)
          /\ email' = fields.email
    /\ extracted' = TRUE
    /\ UNCHANGED <<author_entry, org_mapping, orgs, resolved, restOfExtract>>

(* process_eips_repository: get_organizations(author, org_mapping) for each author
   of the parsed file *)
ResolveExtracted ==
    /\ extracted
    /\ ~resolved
    /\ GetOrganizations

ProcessOrganization ==
    /\ ~canonical
    /\ processed_orgs' = process_organization(raw_org)
    /\ canonical' = TRUE
    /\ UNCHANGED <<raw_org, restOfCanon>>

ParseAttendanceCsv ==
    /\ ~parsed
    /\ attendance_mapping' = parse_attendance_csv(attendance_file)
    /\ parsed' = TRUE
    /\ UNCHANGED <<existing_mapping, attendance_file, updated_mapping, updated, restOfUpdate>>

UpdateOrgMapping ==
    /\ parsed
    /\ ~updated
    /\ updated_mapping' = update_org_mapping(existing_mapping, attendance_mapping)
    /\ updated' = TRUE
    /\ UNCHANGED <<existing_mapping, attendance_file, attendance_mapping, parsed, restOfUpdate>>

FilterEips ==
    /\ filter_calls = 0
    /\ filtered_df' = filter_eips(authors_df, status)
    /\ filter_calls' = 1
    /\ UNCHANGED <<authors_df, status, refiltered_df, eip_nakamoto, accepted_nakamoto,
                   restOfFilter>>

(* filter_eips(filter_eips(df, status), status) *)
FilterEipsAgain ==
    /\ filter_calls = 1
    /\ refiltered_df' = filter_eips(filtered_df, status)
    /\ filter_calls' = 2
    /\ UNCHANGED <<authors_df, status, filtered_df, eip_nakamoto, accepted_nakamoto,
                   restOfFilter>>

ComputeEipNakamoto ==
    /\ eip_nakamoto = NotRun
    /\ LET call == compute_eip_nakamoto(authors_df, status)
       IN /\ filtered_df' = call.filtered
          /\ accepted_eips' = call.organizations.frame
          /\ eip_orgs' = call.organizations.eip_orgs
          /\ eips_per_org' = call.organizations.table
          /\ eip_nakamoto' \in call.coefficient
    /\ UNCHANGED <<authors_df, status, refiltered_df, filter_calls, accepted_nakamoto, processed,
                   coefVars, resVars, loadVars, extractVars, canonVars, updateVars,
                   meetVars, batchVars>>

ComputeAcceptedEipNakamoto ==
    /\ accepted_nakamoto = NotRun
    /\ accepted_nakamoto' \in compute_accepted_eip_nakamoto(authors_df)
    /\ UNCHANGED <<authors_df, status, filtered_df, refiltered_df, filter_calls, eip_nakamoto,
                   restOfFilter>>

ExtractMeetingAttendees ==
    /\ ~meeting_read
    /\ attendees' = extract_meeting_attendees(content)
    /\ meeting_read' = TRUE
    /\ UNCHANGED <<content, restOfMeet>>

ProcessEipsRepository ==
    /\ ~authors_csv.run
    /\ authors_csv' = process_eips_repository(eip_files, mapping_items)
    /\ UNCHANGED <<eip_files, meeting_files, mapping_items, attendance_csv, restOfBatch>>

ProcessCoreDevMeetings ==
    /\ ~attendance_csv.run
    /\ attendance_csv' \in process_core_dev_meetings(meeting_files, mapping_items)
    /\ UNCHANGED <<eip_files, meeting_files, mapping_items, authors_csv, restOfBatch>>

----------------------------------------------------------------------------
(* Spec: the coefficient engine over one share table.
   SpecReport: the engine at its default threshold and the two reports.
   SpecOrgs: process_organizations over one batch of author rows.
   SpecResolve: get_organizations for one author and one mapping. *)

Init == InitCoef /\ IdleOrgs /\ IdleResolve /\ IdleLoad /\ IdleExtract /\ IdleCanon /\ IdleUpdate /\ IdleFilter /\ IdleMeet /\ IdleBatch

Next == ComputeNakamotoCoefficient

Spec == Init /\ [][Next]_vars

NextReport ==
    \/ ComputeNakamotoCoefficientDefault
    \/ GenerateTextReport
    \/ TextVisualizeShares

SpecReport == Init /\ [][NextReport]_vars

InitOrgsOnly == IdleCoef /\ InitOrgs /\ IdleResolve /\ IdleLoad /\ IdleExtract /\ IdleCanon /\ IdleUpdate /\ IdleFilter /\ IdleMeet /\ IdleBatch

NextOrgs == ProcessOrganizations

SpecOrgs == InitOrgsOnly /\ [][NextOrgs]_vars

InitResolveOnly == IdleCoef /\ IdleOrgs /\ InitResolve /\ IdleLoad /\ IdleExtract /\ IdleCanon /\ IdleUpdate /\ IdleFilter /\ IdleMeet /\ IdleBatch

NextResolve == GetOrganizations

SpecResolve == InitResolveOnly /\ [][NextResolve]_vars

(* SpecLoad: load_organization_mapping over one mapping file *)
InitLoadOnly == IdleCoef /\ IdleOrgs /\ IdleResolve /\ InitLoad /\ IdleExtract /\ IdleCanon /\ IdleUpdate /\ IdleFilter /\ IdleMeet /\ IdleBatch

NextLoad == LoadOrganizationMapping

SpecLoad == InitLoadOnly /\ [][NextLoad]_vars

(* SpecExtract: one author entry is extracted and then resolved *)
InitExtractMapping ==
    /\ author = EipAuthor(<<>>, None, None)
    /\ org_mapping \in OrgMappings
    /\ orgs = {}
    /\ resolved = FALSE

InitExtractOnly == IdleCoef /\ IdleOrgs /\ IdleLoad /\ InitExtract /\ InitExtractMapping /\ IdleCanon /\ IdleUpdate /\ IdleFilter /\ IdleMeet /\ IdleBatch

NextExtract ==
    \/ ExtractAuthor
    \/ ResolveExtracted

SpecExtract == InitExtractOnly /\ [][NextExtract]_vars

(* SpecCanon: process_organization over one organization string *)
InitCanonOnly == IdleCoef /\ IdleOrgs /\ IdleResolve /\ IdleLoad /\ IdleExtract /\ InitCanon /\ IdleUpdate /\ IdleFilter /\ IdleMeet /\ IdleBatch

NextCanon == ProcessOrganization

SpecCanon == InitCanonOnly /\ [][NextCanon]_vars

(* SpecUpdate: main() of update_org_mapping.py: the attendance file is parsed and
   merged into the existing mapping *)
InitUpdateOnly == IdleCoef /\ IdleOrgs /\ IdleResolve /\ IdleLoad /\ IdleExtract /\ IdleCanon /\ InitUpdate /\ IdleFilter /\ IdleMeet /\ IdleBatch

NextUpdate ==
    \/ ParseAttendanceCsv
    \/ UpdateOrgMapping

SpecUpdate == InitUpdateOnly /\ [][NextUpdate]_vars

(* SpecFilter: filter_eips over one batch of records, and over its own output *)
InitFilterOnly == IdleCoef /\ IdleOrgs /\ IdleResolve /\ IdleLoad /\ IdleExtract /\ IdleCanon /\ IdleUpdate /\ InitFilter /\ IdleMeet /\ IdleBatch

NextFilter ==
    \/ FilterEips
    \/ FilterEipsAgain

SpecFilter == InitFilterOnly /\ [][NextFilter]_vars

(* SpecEip: compute_eip_nakamoto over one batch of records *)
InitEipOnly == IdleCoef /\ IdleOrgs /\ IdleResolve /\ IdleLoad /\ IdleExtract /\ IdleCanon /\ IdleUpdate /\ InitEip /\ IdleMeet /\ IdleBatch

NextEip ==
    \/ ComputeEipNakamoto
    \/ ComputeAcceptedEipNakamoto

SpecEip == InitEipOnly /\ [][NextEip]_vars

(* SpecOrder: the coefficient engine over tables with repeated entities and ties *)
InitOrderOnly == InitOrder /\ IdleOrgs /\ IdleResolve /\ IdleLoad /\ IdleExtract /\ IdleCanon /\ IdleUpdate /\ IdleFilter /\ IdleMeet /\ IdleBatch

SpecOrder == InitOrderOnly /\ [][Next]_vars

(* SpecMeet: extract_meeting_attendees over the text of one notes file *)
InitMeetOnly == IdleCoef /\ IdleOrgs /\ IdleResolve /\ IdleLoad /\ IdleExtract /\ IdleCanon /\ IdleUpdate /\ IdleFilter /\ InitMeet /\ IdleBatch

NextMeet == ExtractMeetingAttendees

SpecMeet == InitMeetOnly /\ [][NextMeet]_vars

(* SpecBatch: the two batch functions over one repository and one mapping file *)
InitBatchOnly == IdleCoef /\ IdleOrgs /\ IdleResolve /\ IdleLoad /\ IdleExtract /\ IdleCanon /\ IdleUpdate /\ IdleFilter /\ IdleMeet /\ InitBatch

NextBatch == ProcessEipsRepository \/ ProcessCoreDevMeetings

SpecBatch == InitBatchOnly /\ [][NextBatch]_vars

----------------------------------------------------------------------------
(* Properties of the coefficient engine.  They are stated over the table
   itself: the total of an entity, and the largest total k entities can have. *)

Called == entities_needed # NotRun

Entities == EntityColumn(df)

NumEntities == Cardinality(Entities)

EntityTotal(e) ==
    LET idx == {i \in 1..Len(df) : df[i].Entity = e}
        RECURSIVE Add(_)
        Add(I) == IF I = {} THEN 0
                  ELSE LET i == CHOOSE x \in I : TRUE IN df[i].Share + Add(I \ {i})
    IN Add(idx)

RECURSIVE SetTotal(_)
SetTotal(S) ==
    IF S = {} THEN 0
    ELSE LET e == CHOOSE x \in S : TRUE IN EntityTotal(e) + SetTotal(S \ {e})

(* The combined share of the k largest entities *)
TopK(k) ==
    LET sums == {SetTotal(S) : S \in {T \in SUBSET Entities : Cardinality(T) = k}}
    IN CHOOSE m \in sums : \A x \in sums : x <= m

(* x/unit compared with the fraction t *)
AtLeast(x, t) == x * t.den >= t.num * unit
Exactly(x, t) == x * t.den = t.num * unit

IsHalf(t) == 2 * t.num = t.den

FracLE(a, b) == a.num * b.den <= b.num * a.den

IsSmallestK(k, t) ==
    /\ k \in 1..NumEntities
    /\ AtLeast(TopK(k), t)
    /\ \A j \in 1..(k - 1) : ~AtLeast(TopK(j), t)

(* C1, as stated: for every non-empty table and every threshold the result is
   the smallest k such that the k largest shares sum to at least the threshold *)
C1_SmallestPrefixAlways ==
    (Called /\ df # <<>>) => IsSmallestK(entities_needed, threshold)

(* C1, amended: the result is the smallest k such that the k largest shares sum
   to at least the threshold when such a k exists, and the number of entities
   when even all shares together stay below the threshold *)
C1_SmallestPrefixOrAll ==
    (Called /\ df # <<>>) =>
        IF \E k \in 1..NumEntities : AtLeast(TopK(k), threshold)
        THEN IsSmallestK(entities_needed, threshold)
        ELSE entities_needed = NumEntities

C1_Witness ==
    /\ Called
    /\ Len(df) > NumEntities
    /\ entities_needed = 2
    /\ AtLeast(TopK(2), threshold)
    /\ EntityTotal(Str("B")) > EntityTotal(Str("A"))

C1_WitnessBelowThreshold ==
    /\ Called
    /\ df # <<>>
    /\ ~AtLeast(TopK(NumEntities), threshold)
    /\ entities_needed = NumEntities

(* C2: on the shares 0.3, 0.25, 0.2, 0.15, 0.1 of A..E with threshold 0.5 the
   coefficient is 3 *)
C2_BasicTableGivesThree ==
    (Called /\ df = BasicShares /\ unit = TestUnit /\ IsHalf(threshold))
        => entities_needed = 3

OneRowPerEntity == Len(df) = NumEntities

(* C3: for every table with one row per entity, the coefficient written by
   generate_text_report and by text_visualize_shares equals
   compute_nakamoto_coefficient of the table at threshold 0.5 *)
C3_UniformBoundary ==
    (Called /\ OneRowPerEntity) =>
        /\ nakamoto # NotRun => nakamoto = entities_needed
        /\ vizNeeded # NotRun => vizNeeded = entities_needed

(* C4: when the k largest shares sum exactly to the threshold and the k-1
   largest stay below it, the result is k *)
C4_BoundaryInclusive ==
    Called =>
        \A k \in 1..NumEntities :
            (/\ Exactly(TopK(k), threshold)
             /\ k = 1 \/ ~AtLeast(TopK(k - 1), threshold))
                => entities_needed = k

(* the boundary entity ties with the next one, which is not consumed *)
C4_Witness ==
    /\ Called
    /\ entities_needed \in 1..(NumEntities - 1)
    /\ Exactly(TopK(entities_needed), threshold)
    /\ ~AtLeast(TopK(entities_needed - 1), threshold)
    /\ TopK(entities_needed + 1) - TopK(entities_needed)
           = TopK(entities_needed) - TopK(entities_needed - 1)

(* C5: over one table the result does not decrease when the threshold grows *)
C5_MonotoneInThreshold ==
    (Called /\ prevNeeded # NotRun) =>
        /\ FracLE(prevThreshold, threshold) => prevNeeded <= entities_needed
        /\ FracLE(threshold, prevThreshold) => entities_needed <= prevNeeded

C5_Witness ==
    /\ Called
    /\ prevNeeded # NotRun
    /\ ~FracLE(threshold, prevThreshold)
    /\ prevNeeded < entities_needed

(* C6: on a table whose shares do not sum to 1 the result is decided by the
   running sum of the shares as given: it is the first k at which that sum
   reaches the threshold, or the number of entities if it never does *)
C6_AbsoluteShares ==
    (Called /\ df # <<>> /\ SumShares(df) # unit) =>
        /\ entities_needed \in 1..NumEntities
        /\ AtLeast(TopK(entities_needed), threshold) \/ entities_needed = NumEntities
        /\ \A j \in 1..(entities_needed - 1) : ~AtLeast(TopK(j), threshold)

(* the shares divided by their total would give another result *)
C6_Witness ==
    /\ Called
    /\ SumShares(df) > unit
    /\ AtLeast(TopK(entities_needed), threshold)
    /\ LET total == SumShares(df)
           Normalised(k) == TopK(k) * threshold.den >= threshold.num * total
       IN \E j \in 1..NumEntities :
              /\ j # entities_needed
              /\ Normalised(j)
              /\ \A i \in 1..(j - 1) : ~Normalised(i)

----------------------------------------------------------------------------
(* Properties of process_organizations, stated over the author rows *)

InputEips == {accepted_eips[i].EIP : i \in 1..Len(accepted_eips)}

RowsOfEip(e) == {i \in 1..Len(accepted_eips) : accepted_eips[i].EIP = e}

(* row i lists the organization o in its Organizations field *)
Lists(i, o) == o \in Range(RowOrgs(accepted_eips[i]))

TableOrgs == {eips_per_org[i].Organization : i \in 1..Len(eips_per_org)}

CountOf(o) ==
    IF o \in TableOrgs
    THEN LET i == CHOOSE x \in 1..Len(eips_per_org) : eips_per_org[x].Organization = o
         IN eips_per_org[i].EIP_Count
    ELSE 0

RECURSIVE SumSeq(_)
SumSeq(numbers) == IF numbers = <<>> THEN 0 ELSE numbers[1] + SumSeq(Tail(numbers))

(* C7: an organization's EIP_Count is the number of distinct EIPs that list it,
   however many author rows of one EIP list it *)
C7_OncePerEip ==
    processed =>
        \A o \in Labels :
            CountOf(o) = Cardinality({e \in InputEips : \E i \in RowsOfEip(e) : Lists(i, o)})

(* rows {Ethereum} and {Ethereum, Geth} of one EIP: one unit each *)
C7_Witness ==
    /\ processed
    /\ \E e \in InputEips : \E i, j \in RowsOfEip(e) :
           /\ i # j
           /\ Range(RowOrgs(accepted_eips[i])) = {Str("Ethereum")}
           /\ Range(RowOrgs(accepted_eips[j])) = {Str("Ethereum"), Str("Geth")}
    /\ CountOf(Str("Ethereum")) = 1
    /\ CountOf(Str("Geth")) = 1

DictPairs ==
    {p \in (DOMAIN eip_orgs) \X (UNION Range(eip_orgs)) : p[2] \in eip_orgs[p[1]]}

(* C8: for a non-empty batch every organization's share is (number of EIPs
   whose set contains it) / (number of (EIP, organization) pairs); the counts
   sum to the number of pairs and the shares to 1 *)
C8_SharesOverPairs ==
    (processed /\ accepted_eips # <<>>) =>
        /\ DictPairs # {}
        /\ TableOrgs = {p[2] : p \in DictPairs}
        /\ \A i \in 1..Len(eips_per_org) :
              LET row == eips_per_org[i]
              IN /\ row.EIP_Count
                       = Cardinality({e \in DOMAIN eip_orgs : row.Organization \in eip_orgs[e]})
                 /\ row.Share = Frac(row.EIP_Count, Cardinality(DictPairs))
        /\ SumSeq([i \in 1..Len(eips_per_org) |-> eips_per_org[i].EIP_Count]) = Cardinality(DictPairs)
        /\ SumSeq([i \in 1..Len(eips_per_org) |-> eips_per_org[i].Share.num]) = Cardinality(DictPairs)

(* more pairs than EIPs *)
C8_Witness ==
    /\ processed
    /\ Cardinality(DOMAIN eip_orgs) = 2
    /\ Cardinality(DictPairs) = 3
    /\ Len(eips_per_org) = 2

NoOrganizations(e) ==
    \A i \in RowsOfEip(e) : accepted_eips[i].Organizations \in {NaN, <<>>}

C9_AuthorNameFallback ==
    processed =>
        /\ \A e \in InputEips :
              NoOrganizations(e) =>
                  /\ e \in DOMAIN eip_orgs
                  /\ eip_orgs[e] = {accepted_eips[i].AuthorName : i \in RowsOfEip(e)}
        /\ Str("Independent") \notin TableOrgs \cup UNION Range(eip_orgs)

(* C9: an EIP all of whose rows have an empty or missing Organizations field is
   attributed to the Author Names of its rows; the label "Independent" is never
   inserted and the input rows are never modified *)
C9_FallbackKeepsInput ==
    /\ []C9_AuthorNameFallback
    /\ [][accepted_eips' = accepted_eips]_vars

C9_Witness ==
    /\ processed
    /\ \E e \in InputEips :
           /\ NoOrganizations(e)
           /\ eip_orgs[e] = AuthorNames
    /\ TableOrgs = AuthorNames

(* C28: the author-name fallback is decided per row: every row whose
   Organizations field holds no organization adds its Author Name to the entity
   set of its EIP, also when other rows of that EIP carry organizations, and
   those organizations are in the set too *)
C28_FallbackPerRow ==
    processed =>
        \A i \in 1..Len(accepted_eips) :
            /\ accepted_eips[i].EIP \in DOMAIN eip_orgs
            /\ IF RowOrgs(accepted_eips[i]) = <<>>
               THEN accepted_eips[i].AuthorName \in eip_orgs[accepted_eips[i].EIP]
               ELSE Range(RowOrgs(accepted_eips[i])) \subseteq eip_orgs[accepted_eips[i].EIP]

C28_Witness ==
    /\ processed
    /\ Len(accepted_eips) = 2
    /\ accepted_eips[1].EIP = accepted_eips[2].EIP
    /\ accepted_eips[1].Organizations = Str("Ethereum")
    /\ accepted_eips[2].Organizations = <<>>
    /\ eip_orgs[accepted_eips[1].EIP] = {Str("Ethereum"), accepted_eips[2].AuthorName}

----------------------------------------------------------------------------
(* Properties of get_organizations *)

NameLookup ==
    IF Lower(author.name) \in DOMAIN org_mapping
    THEN Range(org_mapping[Lower(author.name)]) ELSE {}

HandleLookup ==
    IF author.github \notin {None, <<>>} /\ Lower(author.github) \in DOMAIN org_mapping
    THEN Range(org_mapping[Lower(author.github)]) ELSE {}

(* C10, as stated: when the name lookup is non-empty the result is exactly that
   set; handle lookup, inline organization and handle add nothing *)
C10_FirstNonEmptyWins ==
    (resolved /\ NameLookup # {}) => orgs = NameLookup

(* C10, amended: when the name lookup is non-empty the result is that set
   united with the mapping entry of the handle; the inline organization and the
   handle itself add nothing *)
C10_NameAndHandleEntries ==
    (resolved /\ NameLookup # {}) => orgs = NameLookup \cup HandleLookup

C10_Witness ==
    /\ resolved
    /\ NameLookup # {}
    /\ HandleLookup # {}
    /\ ~(HandleLookup \subseteq NameLookup)
    /\ author.organization = Str("Consensys")
    /\ orgs = NameLookup \cup HandleLookup

Present(field) == field \notin {None, <<>>}

NeitherIsKey ==
    /\ Lower(author.name) \notin DOMAIN org_mapping
    /\ Present(author.github) => Lower(author.github) \notin DOMAIN org_mapping

(* C11: when neither the name nor the handle is a key of the mapping the result
   is {inline organization} if there is one, otherwise {handle} if there is
   one, otherwise empty; never both, and never the label "Independent" *)
C11_FallbackChain ==
    (resolved /\ NeitherIsKey) =>
        /\ orgs = IF Present(author.organization) THEN {author.organization}
                  ELSE IF Present(author.github) THEN {author.github}
                  ELSE {}
        /\ Str("Independent") \notin orgs

(* inline organization and handle both present: only the organization *)
C11_Witness ==
    /\ resolved
    /\ NeitherIsKey
    /\ Present(author.organization)
    /\ Present(author.github)
    /\ orgs = {author.organization}

----------------------------------------------------------------------------
(* Properties of the loaded mapping *)

CollidingItems(key) == {i \in 1..Len(mapping_file) : Lower(mapping_file[i].key) = key}

(* C12: the entry of the case-insensitive mapping under a lower-cased key is the
   union of the entries of all keys of the file that lower-case to it *)
C12_CollidingKeysMerged ==
    loaded =>
        \A key \in DOMAIN org_mapping :
            Range(org_mapping[key]) =
                UNION {Range(mapping_file[i].orgs) : i \in CollidingItems(key)}

----------------------------------------------------------------------------
(* Properties of extraction followed by resolution *)

Trimmed(label) ==
    /\ label # <<>>
    /\ label[1] # " "
    /\ label[Len(label)] # " "

TrimmedMapping == \A key \in DOMAIN org_mapping : \A label \in Range(org_mapping[key]) : Trimmed(label)

(* C13: with a mapping of non-empty trimmed labels, every label of the result for
   an extracted author is non-empty and has no leading or trailing whitespace *)
C13_LabelsTrimmed ==
    (extracted /\ resolved /\ TrimmedMapping) => \A label \in orgs : Trimmed(label)

----------------------------------------------------------------------------
(* Properties of process_organization, stated over the input string itself *)

(* the string begins with "EF" (in any case) and then '/', ':' or whitespace *)
BeginsWithEF == Len(raw_org) >= 2 /\ Lower(<<raw_org[1]>>) = <<"ef">> /\ raw_org[2] \in {"/", ":", " "}

(* what follows "EF" and its separator, without the whitespace around it *)
Remainder == Strip(SubSeq(raw_org, IF raw_org[2] = " " THEN 2 ELSE 3, Len(raw_org)))

IsResearch(label) == Lower(label) = <<"research">>

(* C14: a string that begins with "EF" and '/', ':' or whitespace gives "Ethereum"
   and the remainder after the prefix, unless the remainder is empty or is
   "research" in any case; and no output label is "research" in any case *)
C14_EFPrefixAndResearch ==
    canonical =>
        /\ BeginsWithEF =>
              /\ Str("Ethereum") \in processed_orgs
              /\ (Remainder # <<>> /\ ~IsResearch(Remainder)) => Remainder \in processed_orgs
              /\ (Remainder = <<>> \/ IsResearch(Remainder)) =>
                    processed_orgs \cap {Remainder} = {}
        /\ \A label \in processed_orgs : ~IsResearch(label)
        /\ raw_org = <<"EF", " ", "Research">> => processed_orgs = {Str("Ethereum")}

C14_Witness ==
    /\ canonical
    /\ raw_org = <<"EF", " ", "Research">>
    /\ processed_orgs = {Str("Ethereum")}

C14_WitnessTeam ==
    /\ canonical
    /\ raw_org = <<"ef", ":", " ", "Pantheon">>
    /\ processed_orgs = {Str("Ethereum"), Str("Pantheon")}

TrimmedOrg == Strip(raw_org)

EFPrefixed(str) == Len(str) >= 2 /\ Lower(<<str[1]>>) = <<"ef">> /\ str[2] \in {"/", ":", " "}

(* what follows "EF", one '/' or ':' if there is one, and whitespace *)
AfterPrefix(str) == LStrip(SubSeq(str, IF str[2] = " " THEN 2 ELSE 3, Len(str)))

IsGeth(str) == Lower(str) = <<"geth">>

EndsInGeth(str) == str # <<>> /\ IsGeth(<<str[Len(str)]>>)

BeginsWithGeth(str) == str # <<>> /\ IsGeth(<<str[1]>>)

(* the rule's two labels; "Geth" enters the output in no other way than by the
   rule or as the whole string or team, which fire the rule too *)
GethAdded == {Str("Geth"), Str("Ethereum")} \subseteq processed_orgs

(* C15 as stated: "Geth" and "Ethereum" are added exactly when the trimmed string is
   "geth" or is an EF-prefixed form that ends in "geth", in any case *)
C15_GethExactlyWhenEndsInGeth ==
    canonical =>
        (GethAdded <=> \/ IsGeth(TrimmedOrg)
                       \/ EFPrefixed(TrimmedOrg) /\ EndsInGeth(TrimmedOrg))

(* C15 amended: "Geth" and "Ethereum" are added exactly when the trimmed string is
   "geth" or begins with "EF", then '/' or ':' and optional whitespace or just
   whitespace, and then "geth", whatever follows, in any case *)
C15_GethExactlyWhenBeginsWithGeth ==
    canonical =>
        (GethAdded <=> \/ IsGeth(TrimmedOrg)
                       \/ EFPrefixed(TrimmedOrg) /\ BeginsWithGeth(AfterPrefix(TrimmedOrg)))

C15_Witness ==
    /\ canonical
    /\ EFPrefixed(TrimmedOrg)
    /\ BeginsWithGeth(AfterPrefix(TrimmedOrg))
    /\ ~EndsInGeth(TrimmedOrg)
    /\ GethAdded

C15_WitnessNotFired ==
    /\ canonical
    /\ EFPrefixed(TrimmedOrg)
    /\ EndsInGeth(TrimmedOrg)
    /\ ~GethAdded

Mentions(word) == \E i \in 1..Len(raw_org) : Lower(<<raw_org[i]>>) = <<word>>

PegaSysLabels == {Str("PegaSys"), Str("Consensys")} \subseteq processed_orgs

(* C16 as stated: a string that contains "Pantheon" (in any case) gives the label
   "Pantheon"; one that contains "PegaSys" gives "PegaSys" and "Consensys" *)
C16_PantheonAlways ==
    canonical =>
        /\ Mentions("pantheon") => Str("Pantheon") \in processed_orgs
        /\ Mentions("pegasys") => PegaSysLabels

(* C16 amended: a string that contains "Pantheon" and also "MetaMask" or "PegaSys"
   (in any case) gives the label "Pantheon"; one that contains "PegaSys" gives
   "PegaSys" and "Consensys" *)
C16_PantheonWithConsensys ==
    canonical =>
        /\ (Mentions("pantheon") /\ (Mentions("metamask") \/ Mentions("pegasys"))) =>
              Str("Pantheon") \in processed_orgs
        /\ Mentions("pegasys") => PegaSysLabels

C16_Witness ==
    /\ canonical
    /\ raw_org = <<"PegaSys", "/", "Pantheon">>
    /\ processed_orgs = {raw_org, Str("Consensys"), Str("PegaSys"), Str("Pantheon")}

C16_WitnessPantheonAlone ==
    /\ canonical
    /\ raw_org = <<"Pantheon", " ", "Research">>
    /\ processed_orgs = {raw_org}

----------------------------------------------------------------------------
(* Properties of the mapping update *)

RowsOfAttendee(key) ==
    {i \in 1..Len(attendance_file) : Strip(attendance_file[i].Attendee) = key}

TokensOfRow(i) ==
    LET tokens == Split(Strip(attendance_file[i].Organizations))
    IN {tokens[j] : j \in 1..Len(tokens)}

(* process_organization of every token of every row of the attendee *)
AttendanceLabels(key) ==
    UNION {UNION {process_organization(token) : token \in TokensOfRow(i)} :
              i \in RowsOfAttendee(key)}

ExistingEntry(key) ==
    IF key \in DOMAIN existing_mapping THEN Range(existing_mapping[key]) ELSE {}

C17_EntriesAreUnions ==
    updated =>
        /\ \A key \in DOMAIN updated_mapping :
              Range(updated_mapping[key]) = ExistingEntry(key) \cup AttendanceLabels(key)
        /\ \A key \in DOMAIN existing_mapping :
              /\ key \in DOMAIN updated_mapping
              /\ Range(existing_mapping[key]) \subseteq Range(updated_mapping[key])
        /\ \A key \in Range([i \in 1..Len(attendance_file) |->
                                 Strip(attendance_file[i].Attendee)]) :
              (key # <<>> /\ AttendanceLabels(key) # {}) => key \in DOMAIN updated_mapping

(* C17: after parse_attendance_csv and update_org_mapping every entry is the union
   of the key's existing entry with process_organization of each ';'-separated
   token of each attendance row of that attendee; existing entries only grow, and
   the existing mapping is left as it was *)
C17_UnionAndExistingKept ==
    /\ []C17_EntriesAreUnions
    /\ [][existing_mapping' = existing_mapping]_vars

C17_Witness ==
    /\ updated
    /\ \E key \in DOMAIN existing_mapping :
          /\ ExistingEntry(key) # {}
          /\ AttendanceLabels(key) \ ExistingEntry(key) # {}
          /\ ExistingEntry(key) \ AttendanceLabels(key) # {}
          /\ Cardinality(RowsOfAttendee(key)) = 2
          /\ Range(updated_mapping[key]) = ExistingEntry(key) \cup AttendanceLabels(key)

----------------------------------------------------------------------------
(* Properties of filter_eips *)

MovedErc(record) == record.Category = Str("ERC") /\ record.Status = Str("Moved")

StatusGiven == status # None

(* the records of the input at the given positions, in input order *)
Kept(positions) ==
    [k \in 1..Cardinality(positions) |->
        authors_df[CHOOSE i \in positions : Cardinality({j \in positions : j <= i}) = k]]

KeepAsStated(record) == ~MovedErc(record) /\ (StatusGiven => record.Status = status)

KeepNonEmptyStatus(record) ==
    ~MovedErc(record) /\ ((StatusGiven /\ status # <<>>) => record.Status = status)

NoMovedErc(records) == \A i \in 1..Len(records) : ~MovedErc(records[i])

(* C18 as stated: the output is exactly the input records, in input order, that
   are not ERC/Moved and, when a status is given, whose Status equals it *)
C18_ExactSelection ==
    filter_calls >= 1 =>
        /\ filtered_df = Kept({i \in 1..Len(authors_df) : KeepAsStated(authors_df[i])})
        /\ NoMovedErc(filtered_df)

(* C18 amended: the same, where an empty status string counts as no status *)
C18_ExactSelectionNonEmptyStatus ==
    filter_calls >= 1 =>
        /\ filtered_df = Kept({i \in 1..Len(authors_df) : KeepNonEmptyStatus(authors_df[i])})
        /\ NoMovedErc(filtered_df)

C18_Witness ==
    /\ filter_calls >= 1
    /\ status = Str("Final")
    /\ Len(authors_df) = 2
    /\ MovedErc(authors_df[1])
    /\ authors_df[2].Status = Str("Final")
    /\ filtered_df = <<authors_df[2]>>

C18_WitnessEmptyStatus ==
    /\ filter_calls >= 1
    /\ status = <<>>
    /\ filtered_df # <<>>

(* C19: filtering the output of filter_eips again, with the same status argument
   (none included), gives that output *)
C19_Idempotent == filter_calls = 2 => refiltered_df = filtered_df

C19_Witness ==
    /\ filter_calls = 2
    /\ Len(authors_df) = 2
    /\ Len(filtered_df) = 1
    /\ refiltered_df = filtered_df

----------------------------------------------------------------------------
(* Properties of compute_eip_nakamoto *)

AcceptedStatuses == {Str("Final"), Str("Living"), Str("Last Call")}

OrganizationOf(record) ==
    IF "Organizations" \in DOMAIN record THEN record.Organizations ELSE record.Organization

(* the EIPs with an accepted record of the organization *)
AcceptedEipsOf(organization) ==
    {authors_df[i].EIP : i \in {j \in 1..Len(authors_df) :
                                   /\ authors_df[j].Status \in AcceptedStatuses
                                   /\ OrganizationOf(authors_df[j]) = organization}}

IsTestFixture == authors_df \in {TestEips, TestEipsAsCsv}

(* C20: without a status argument every organization's count is its number of
   accepted EIPs (Final, Living, Last Call), Draft records add nothing, and the ten
   records of the test give coefficient 2 *)
C20_AcceptedOnly ==
    (eip_nakamoto # NotRun /\ status = None) =>
        /\ eip_nakamoto # KeyError =>
              \A i \in 1..Len(eips_per_org) :
                  eips_per_org[i].EIP_Count =
                      Cardinality(AcceptedEipsOf(eips_per_org[i].Organization))
        /\ IsTestFixture => eip_nakamoto = 2

----------------------------------------------------------------------------
(* Properties of the extraction of one author *)

CountOfAtom(str, atom) == Cardinality({i \in 1..Len(str) : str[i] = atom})

EmailOf(local, domain) == <<local, "@", domain, ".", "com">>

(* C21: the email is taken first and removed, so the '@domain' of a captured email
   is never the handle: 'N <local@d.tld> (O)' gives name N, that email,
   organization O and no handle; 'N @h' gives name N, handle h and no email *)
C21_EmailThenHandleThenOrganization ==
    extracted =>
        /\ (email # None /\ CountOfAtom(author_entry, "@") = 1) => author.github = None
        /\ \A n \in EntryNames :
              /\ author_entry = n \o <<" ", "<">> \o EmailOf("alice", "example")
                                   \o <<">", " ", "(", "Consensys", ")">> =>
                    /\ author = EipAuthor(n, None, Str("Consensys"))
                    /\ email = EmailOf("alice", "example")
              /\ author_entry = n \o <<" ", "@", "bob">> =>
                    /\ author = EipAuthor(n, Str("bob"), None)
                    /\ email = None

C21_Witness ==
    /\ extracted
    /\ author_entry = <<"Alice", " ", "<">> \o EmailOf("alice", "example")
                         \o <<">", " ", "(", "Consensys", ")">>
    /\ author = EipAuthor(Str("Alice"), None, Str("Consensys"))
    /\ email = EmailOf("alice", "example")

(* C22: the name of an extracted EIP author does not end with ',', '*' or
   whitespace *)
C22_NameTrimmed ==
    (extracted /\ author.name # <<>>) =>
        author.name[Len(author.name)] \notin {",", "*", " "}

----------------------------------------------------------------------------
(* Properties of the coefficient engine under reordering *)

Reordered(f) == [i \in 1..Len(df) |-> df[f[i]]]

(* one row per entity, holding the sum of the entity's rows *)
MergedTable ==
    LET keys == SortedKeys(Entities)
    IN [i \in 1..Len(keys) |-> Row(keys[i], EntityTotal(keys[i]))]

(* C26: the result is the same for every permutation of the rows and for every
   order of equal shares, and it is the result for the table in which the rows of
   one entity are summed into one row *)
C26_OrderIndependent ==
    Called =>
        /\ \A f \in Permutations(1..Len(df)) :
              compute_nakamoto_coefficient(Reordered(f), unit, threshold) = {entities_needed}
        /\ compute_nakamoto_coefficient(MergedTable, unit, threshold) = {entities_needed}

C26_Witness ==
    /\ Called
    /\ Len(df) = 3
    /\ NumEntities = 2
    /\ \A e \in Entities : EntityTotal(e) = 2
    /\ df[1].Entity = df[3].Entity
    /\ threshold = Frac(3, unit)
    /\ entities_needed = 2

(* C27: compute_accepted_eip_nakamoto of a batch equals compute_eip_nakamoto of
   the batch with status 'Final' *)
C27_AcceptedEqualsFinal ==
    (eip_nakamoto # NotRun /\ accepted_nakamoto # NotRun /\ status = Str("Final")) =>
        accepted_nakamoto = eip_nakamoto

C27_Witness ==
    /\ eip_nakamoto = 1
    /\ accepted_nakamoto = 1
    /\ status = Str("Final")
    /\ Len(authors_df) = 2
    /\ authors_df[1].Category = Str("ERC") /\ authors_df[1].Status = Str("Moved")
    /\ authors_df[2].Category = Str("ERC") /\ authors_df[2].Status = Str("Final")

----------------------------------------------------------------------------
(* Properties of extract_meeting_attendees *)

(* C23: no attendee is, in any case of its letters, one of the section labels
   "agenda", "summary", "actions", "notes", whichever pattern produced it *)
C23_NoSectionLabel ==
    meeting_read => \A name \in attendees : Lower(name) \notin StopList

HasSection == Sections(content, 1) # {}

(* C24 as stated: when the text has a heading-delimited Attendees block the
   attendee set is what that block gives, and the inline label adds nothing *)
C24_InlineOnlyWithoutSection ==
    (meeting_read /\ HasSection) =>
        attendees = UNION {SectionNames(section) : section \in Sections(content, 1)}

(* the lines of the text that begin with an inline label and a colon *)
LabelLines ==
    LET lines == SplitOn(content, Newline)
    IN {i \in 1..Len(lines) :
           Len(lines[i]) >= 2 /\ lines[i][1] \in InlineLabels /\ lines[i][2] = ":"}

(* the words listed on the first such line, the section labels left aside *)
ListedAfterLabel ==
    LET line == SplitOn(content, Newline)[Least(LabelLines)]
    IN {<<line[i]>> : i \in {j \in 3..Len(line) :
                                IsWord(line[j]) /\ Lower(<<line[j]>>) \notin StopList}}

BlockThenLabel ==
    <<"#", " ", "Attendees", Newline, "-", " ", "Alice", Newline,
      "Participants", ":", " ", "Bob", "*">>

(* C24 amended: the inline label is applied to every text, with or without a
   heading-delimited Attendees block: the names listed after the first label at
   the start of a line are attendees in either case, and a text with a block of
   bullets and a label line gives the names of both *)
C24_InlineAlways ==
    meeting_read =>
        /\ LabelLines # {} => ListedAfterLabel \subseteq attendees
        /\ content = BlockThenLabel => attendees = {Str("Alice"), Str("Bob")}

C24_Witness ==
    /\ meeting_read
    /\ HasSection
    /\ content = BlockThenLabel
    /\ attendees = {Str("Alice"), Str("Bob")}

----------------------------------------------------------------------------
(* Properties of the batches *)

BatchMapping == load_organization_mapping(mapping_items)

(* the EIP numbers of the files for which neither the extraction nor the
   resolution of an author raises *)
GoodEips ==
    {eip_files[i].eip_number :
        i \in {j \in 1..Len(eip_files) :
                  /\ ~ExtractionRaises(eip_files[j])
                  /\ \A a \in Range(parse_eip_file(eip_files[j]).authors) :
                         ~ResolutionRaises(a, BatchMapping)}}

(* the numbers of the numbered, readable notes files for which the resolution of
   no attendee raises *)
GoodMeetings ==
    {meeting_files[i].meeting_number :
        i \in {j \in 1..Len(meeting_files) :
                  /\ meeting_files[j].content # Undecodable
                  /\ meeting_files[j].meeting_number > 0
                  /\ \A a \in extract_meeting_attendees(meeting_files[j].content) :
                         ~AttendeeResolutionRaises(a, BatchMapping)}}

(* C25: neither batch function is left by an exception of one record: the
   records whose extraction or resolution raises are skipped and every other
   record is written, wherever the bad records stand in the batch *)
C25_BadRecordsSkipped ==
    /\ authors_csv.run =>
          /\ ~authors_csv.raised
          /\ GoodEips = {authors_csv.rows[i].EIP : i \in 1..Len(authors_csv.rows)}
    /\ attendance_csv.run =>
          /\ ~attendance_csv.raised
          /\ GoodMeetings =
                 {attendance_csv.rows[i].MeetingNumber : i \in 1..Len(attendance_csv.rows)}

====
